---- MODULE Spec2Model ----
(***************************************************************************)
(* Model of check-my-deps (kinolanka/check-my-deps).                       *)
(*                                                                         *)
(* Part 1 - the concurrent registry fetcher:                               *)
(*   processInChunks (utils/helpers/process-in-chunks) and its caller      *)
(*   NpmService.getList / _setDependenciesList (services/npm-service.ts).  *)
(* Part 2 - the per-package record: PackageInfoService                     *)
(*   (services/package-info-service.ts): version selection, update         *)
(*   classification, registry source and deprecation.                      *)
(* Part 3 - the update planner: UpdateService.prepareUpdates               *)
(*   (services/udpate/update-service.ts).                                  *)
(* Part 4 - a command run: the action of the update command with           *)
(*   UpdateService.applyUpdates and the manifest file, the action of the   *)
(*   export command, and NpmService's handling of a failing npm list.      *)
(* Part 5 - the export report: SummaryService (services/export) and        *)
(*   PackageFileService.getExportFilePath.                                 *)
(***************************************************************************)
EXTENDS Integers, Sequences, FiniteSets, TLC

VARIABLES
    \* ---- part 1: processInChunks / NpmService ----
    caller,     \* who called processInChunks: "direct" (a test) or "NpmService"
    data,       \* processInChunks' data argument (0-based in the code, 1-based here)
    limit,      \* processInChunks' limit argument
    pc,         \* "idle" | "await" (inside await Promise.all) | "returned" | "threw"
    stage,      \* NpmService._setDependenciesList: 1 = npm view pass, 2 = record pass
    i,          \* the loop variable i of processInChunks (0-based)
    st,         \* per data index: "idle" | "inflight" | "fulfilled" | "rejected"
    results,    \* the results array of the running processInChunks call
    started,    \* data indexes in the order the callback was invoked
    fetches,    \* package names passed to _getNpmViewData, in call order
    npmViewDataResponses, \* NpmService: result of the first pass
    list,       \* NpmService.list
    getList,    \* the promise returned by getList(): "none" | "pending" | "resolved" | "rejected"
    outOfOrder, \* history: some callback settled while one of a lower index was in flight
    \* ---- part 2: PackageInfoService ----
    phase,      \* "input" | "built"
    npmListDepItem,   \* [present, version, resolved] ; "" for a missing field
    npmRegistryData,  \* [present, versions (the keys in insertion order),
                      \*  deprecatedKeys (keys whose entry has a truthy deprecated
                      \*  field), deprecated (a truthy package-level field)]
    versionInstalled, \* .version of the field, "" when the field is undefined
    versionLastPatch,
    versionLastMinor,
    versionLast,
    updateStatus,     \* "upToDate" | "patch" | "minor" | "major" | "undefined"
    registrySource,   \* "" when undefined
    registryError,    \* setRegistrySource: "none" | "caught" | "uncaught"
    deprecated,       \* the deprecated field of each version info of the record
    \* ---- part 3: UpdateService ----
    versionRequired,  \* the manifest's range for the package
    updateLevel,      \* the --level option: "latest" | "minor" | "patch", or a word
                      \* the command rejects
    updates,          \* the plan returned by prepareUpdates
    \* ---- part 4: a command run ----
    rpc,              \* where the command's action is
    dryRun,           \* the --dry-run option
    packageInfoList,  \* what npmService.getList() resolves to, serialized
    manifestAtStart,  \* history: the manifest file when the run started
    manifestFile,     \* the manifest file: package name -> range
    packageJson,      \* applyUpdates: the parsed manifest in memory
    applied,          \* applyUpdates: plan entries the loop has handled
    updatedCount,     \* applyUpdates: updatedCount
    writes,           \* history: calls of fs.writeFileSync on the manifest
    returned,         \* what applyUpdates returned, NotReturned before
    command,          \* "update" | "export"; "none": applyUpdates called directly
    failure,          \* the error a catch clause caught last, "none" before
    exitCode,         \* the exit code of the process, NotExited while it runs
    reports,          \* history: report files the export command has saved
    callLog,          \* history: one entry per call of applyUpdates
    \* ---- part 5: the export report ----
    spc,              \* SummaryService's constructor: "idle" | "new" | "byType" | "totals"
    summaryList,      \* SummaryService.list: the rows of getInfo() it was given
    summary,          \* SummaryService.summary: [byType, totals]
    fpc,              \* getExportFilePath: "idle" | "call" | "returned"
    exportCall,       \* its inputs: the manifest's name and version, the file
                      \* extension, forceOverwrite, the files of the output
                      \* directory, and whether fs.readdirSync throws
    exportPath        \* the path it returned, without extension

fetchVars == <<caller, data, limit, pc, stage, i, st, results, started, fetches,
               npmViewDataResponses, list, getList, outOfOrder>>
infoVars == <<phase, npmListDepItem, npmRegistryData, versionInstalled,
              versionLastPatch, versionLastMinor, versionLast, updateStatus,
              registrySource, registryError, deprecated,
              versionRequired, updateLevel, updates>>
runVars == <<rpc, dryRun, packageInfoList, manifestAtStart, manifestFile, packageJson,
             applied, updatedCount, writes, returned, command, failure, exitCode,
             reports, callLog>>
exportVars == <<spc, summaryList, summary, fpc, exportCall, exportPath>>
vars == <<fetchVars, infoVars, runVars, exportVars>>

(***************************************************************************)
(* Bounds                                                                  *)
(***************************************************************************)
MaxLimit == 3        \* explicit limit arguments tried by a direct caller: 1..MaxLimit
MaxDecls == 6        \* at most this many declarations in one manifest
MaxVersions == 4     \* at most this many version keys in one registry payload

(***************************************************************************)
(* Program constants                                                       *)
(***************************************************************************)
DefaultLimit == 5    \* processInChunks(data, callback, limit = 5)
NpmLimit == 5        \* NpmService passes 5 to both processInChunks calls

(***************************************************************************)
(* Part 1: the manifest and its declarations                               *)
(***************************************************************************)
PackageNames == {"lodash", "react"}

\* PackageFileService.depsTypes, in iteration order
depsTypes == <<"dependencies", "devDependencies", "peerDependencies", "optionalDependencies">>

\* one dependency-type group of package.json: an object, so its keys are
\* distinct; Object.entries yields them in insertion order
Groups ==
    { g \in UNION { [1..n -> PackageNames] : n \in 0..Cardinality(PackageNames) } :
        \A x, y \in DOMAIN g : x # y => g[x] # g[y] }

RECURSIVE SumLen(_, _)
SumLen(m, n) == IF n = 0 THEN 0 ELSE Len(m[n]) + SumLen(m, n - 1)

Manifests ==
    { m \in [1..Len(depsTypes) -> Groups] : SumLen(m, Len(depsTypes)) <= MaxDecls }

\* PackageFileService.getPackages: every group in depsTypes order, every
\* entry of the group in key order, pushed onto one list
RECURSIVE getPackagesFrom(_, _)
getPackagesFrom(m, t) ==
    IF t > Len(depsTypes) THEN <<>>
    ELSE [j \in 1..Len(m[t]) |->
             [packageName |-> m[t][j], dependencyType |-> depsTypes[t]]]
         \o getPackagesFrom(m, t + 1)

getPackages(m) == getPackagesFrom(m, 1)

(***************************************************************************)
(* Part 1: processInChunks                                                 *)
(***************************************************************************)
Indexes == 0 .. (Len(data) - 1)

Hole == [hole |-> TRUE]      \* an empty slot of new Array(data.length)

\* a slice one item too long: data.slice(i0, i0 + limit + 1)
ChunkOfOneTooMany(i0) == { k \in Indexes : i0 <= k /\ k <= i0 + limit }

\* data.slice(i0, i0 + limit), as the set of data indexes it covers
ChunkOf(i0) == { k \in Indexes : i0 <= k /\ k < i0 + limit }

\* ascending enumeration of a set of indexes
RECURSIVE Ascending(_)
Ascending(S) ==
    IF S = {} THEN <<>>
    ELSE LET lo == CHOOSE x \in S : \A y \in S : x <= y
         IN <<lo>> \o Ascending(S \ {lo})

\* the value the callback's promise fulfils with
CallbackValue(item, index, stg) ==
    IF caller = "direct" THEN [value |-> item, index |-> index]
    ELSE IF stg = 1 THEN [npmViewOf |-> item.packageName]
    ELSE [package |-> item, npmViewData |-> npmViewDataResponses[index]]

\* chunk.map(...): the callback is invoked for every item of the chunk, in order
\* (dataIndex = i + chunkIndex)
IssuedSt(s, i0) == [k \in Indexes |-> IF k \in ChunkOf(i0) THEN "inflight" ELSE s[k]]

IssuedStarted(sq, i0) == sq \o Ascending(ChunkOf(i0))

\* pass 1 of NpmService: the callback is _getNpmViewData(pkg.packageName)
IssuedFetches(f, i0, stg) ==
    IF caller = "NpmService" /\ stg = 1
    THEN f \o [n \in 1..Cardinality(ChunkOf(i0)) |->
                  data[Ascending(ChunkOf(i0))[n] + 1].packageName]
    ELSE f

\* storing at the position inside the chunk: results[chunkIndex] = result
StoreResultAtChunkIndex(r, dataIndex, result) == [r EXCEPT ![dataIndex % limit] = result]

\* results[dataIndex] = result
StoreResult(r, dataIndex, result) == [r EXCEPT ![dataIndex] = result]

InFlight == { k \in Indexes : st[k] = "inflight" }

\* a wait that ends with the first callback of the chunk (Promise.race)
chunkSettledByFirst(s, i0) == \E j \in ChunkOf(i0) : s[j] = "fulfilled"

\* await Promise.all(chunkPromises) goes on when every promise of the
\* chunk has fulfilled
chunkSettled(s, i0) == \A j \in ChunkOf(i0) : s[j] = "fulfilled"

TypeOK ==
    /\ caller \in {"direct", "NpmService"}
    /\ pc \in {"idle", "await", "returned", "threw"}
    /\ stage \in {1, 2}
    /\ getList \in {"none", "pending", "resolved", "rejected"}
    /\ phase \in {"input", "built", "planned"}
    /\ registryError \in {"none", "caught", "uncaught"}
    /\ updateLevel \in {"latest", "minor", "patch", "major"}
    /\ rpc \in {"idle", "start", "awaitGetList", "apply", "loop", "nothingToUpdate",
                "dryRunDone", "done", "failed", "aborted", "exited", "awaitSave",
                "exportDone", "new", "call"}
    /\ dryRun \in BOOLEAN
    /\ applied \in 0..Len(updates)
    /\ updatedCount \in 0..applied
    /\ command \in {"none", "update", "export"}
    /\ failure \in {"none", "invalidLevel", "lockfileAbsent", "manifestUnreadable",
                    "manifestInvalidJson", "versionMismatch", "npmListFailed",
                    "getListRejected", "exportFailed"}
    /\ exitCode \in {-1, 0, 1}
    /\ reports \in {0, 1}
    /\ writes \in 0..Len(callLog)
    /\ spc \in {"idle", "new", "byType", "totals"}
    /\ fpc \in {"idle", "call", "returned"}
    /\ exportCall.forceOverwrite \in BOOLEAN

InitFetch ==
    /\ \E m \in Manifests : data = getPackages(m)
    /\ \E c \in {"direct", "NpmService"} :
         /\ caller = c
         /\ IF c = "NpmService" THEN limit = NpmLimit
            ELSE limit \in (1..MaxLimit) \cup {DefaultLimit}
    /\ pc = "idle"
    /\ stage = 1
    /\ i = 0
    /\ st = [k \in Indexes |-> "idle"]
    /\ results = <<>>
    /\ started = <<>>
    /\ fetches = <<>>
    /\ npmViewDataResponses = <<>>
    /\ list = <<>>
    /\ getList = "none"
    /\ outOfOrder = FALSE

\* entering processInChunks with non-empty data: allocate results, issue chunk 0
EnterNonEmpty(stg) ==
    /\ pc' = "await"
    /\ i' = 0
    /\ results' = [k \in Indexes |-> Hole]
    /\ st' = IssuedSt([k \in Indexes |-> "idle"], 0)
    /\ started' = IssuedStarted(<<>>, 0)
    /\ fetches' = IssuedFetches(fetches, 0, stg)

\* a test calls processInChunks(data, callback[, limit])
CallProcessInChunks ==
    /\ caller = "direct"
    /\ pc = "idle"
    /\ IF Len(data) = 0
       THEN /\ pc' = "returned"
            /\ results' = <<>>
            /\ UNCHANGED <<i, st, started, fetches>>
       ELSE EnterNonEmpty(1)
    /\ UNCHANGED <<caller, data, limit, stage, npmViewDataResponses, list, getList,
                   outOfOrder>>
    /\ UNCHANGED <<infoVars, runVars, exportVars>>

\* NpmService.getList() -> _setDependenciesList() -> first processInChunks
GetList ==
    /\ caller = "NpmService"
    /\ pc = "idle"
    /\ getList = "none"
    /\ IF Len(data) = 0
       THEN \* both passes return [] at once
            /\ pc' = "returned"
            /\ stage' = 2
            /\ results' = <<>>
            /\ npmViewDataResponses' = <<>>
            /\ list' = <<>>
            /\ getList' = "resolved"
            /\ UNCHANGED <<i, st, started, fetches>>
       ELSE /\ EnterNonEmpty(1)
            /\ getList' = "pending"
            /\ UNCHANGED <<stage, npmViewDataResponses, list>>
    /\ UNCHANGED <<caller, data, limit, outOfOrder>>
    /\ UNCHANGED <<infoVars, runVars, exportVars>>

\* the callback's promise for data index k fulfils; the .then handler stores
\* the result; when that completes the chunk, Promise.all resolves and the
\* loop goes on (next chunk, or return); NpmService then goes on as well
CallbackFulfils(k) ==
    /\ k \in Indexes
    /\ st[k] = "inflight"
    /\ LET r1 == StoreResult(results, k, CallbackValue(data[k + 1], k, stage))
           s1 == [st EXCEPT ![k] = "fulfilled"]
           chunkDone == pc = "await" /\ chunkSettled(s1, i)
           i1 == i + limit
       IN  IF ~chunkDone
           THEN /\ results' = r1
                /\ st' = s1
                /\ UNCHANGED <<pc, i, stage, started, fetches, npmViewDataResponses,
                               list, getList>>
           ELSE IF i1 < Len(data)
           THEN \* next iteration of the for loop
                /\ results' = r1
                /\ i' = i1
                /\ st' = IssuedSt(s1, i1)
                /\ started' = IssuedStarted(started, i1)
                /\ fetches' = IssuedFetches(fetches, i1, stage)
                /\ UNCHANGED <<pc, stage, npmViewDataResponses, list, getList>>
           ELSE IF caller = "NpmService" /\ stage = 1
           THEN \* pass 1 returned its results; pass 2 starts on the same list
                /\ npmViewDataResponses' = r1
                /\ stage' = 2
                /\ EnterNonEmpty(2)
                /\ UNCHANGED <<list, getList>>
           ELSE IF caller = "NpmService"
           THEN \* pass 2 returned: this.list = results; getList resolves
                /\ results' = r1
                /\ st' = s1
                /\ i' = i1
                /\ pc' = "returned"
                /\ list' = [n \in 1..Len(data) |-> r1[n - 1]]
                /\ getList' = "resolved"
                /\ UNCHANGED <<stage, started, fetches, npmViewDataResponses>>
           ELSE /\ results' = r1
                /\ st' = s1
                /\ i' = i1
                /\ pc' = "returned"
                /\ UNCHANGED <<stage, started, fetches, npmViewDataResponses,
                               list, getList>>
    /\ outOfOrder' = (outOfOrder \/ \E j \in InFlight : j < k)
    /\ UNCHANGED <<caller, data, limit>>
    /\ UNCHANGED <<infoVars, runVars, exportVars>>

\* callbacks that can reject: any callback of a direct caller; in NpmService
\* _getNpmViewData (pass 1) rejects on an exec error or unparseable output,
\* while the pass-2 callback only awaits promises that always resolve
CanReject == caller = "direct" \/ stage = 1

\* the callback's promise for data index k rejects: the .then handler is
\* skipped; Promise.all rejects at once, the await throws out of
\* processInChunks, and _setDependenciesList / getList reject with it
CallbackRejects(k) ==
    /\ k \in Indexes
    /\ st[k] = "inflight"
    /\ CanReject
    /\ st' = [st EXCEPT ![k] = "rejected"]
    /\ pc' = IF pc = "await" THEN "threw" ELSE pc
    /\ getList' = IF pc = "await" /\ caller = "NpmService" THEN "rejected" ELSE getList
    /\ outOfOrder' = (outOfOrder \/ \E j \in InFlight : j < k)
    /\ UNCHANGED <<caller, data, limit, stage, i, results, started, fetches,
                   npmViewDataResponses, list>>
    /\ UNCHANGED <<infoVars, runVars, exportVars>>


(***************************************************************************)
(* Part 2: JavaScript strings and numbers                                  *)
(* A string is the sequence of its characters; "" is <<>>, which is falsy  *)
(* like undefined, so an optional string that the code only ever sets to a *)
(* truthy value is modelled with <<>> for undefined.                       *)
(***************************************************************************)
EmptyStr == <<>>

DigitChars == <<"0", "1", "2", "3", "4", "5", "6", "7", "8", "9">>

IsDigit(c) == \E d \in 1..10 : DigitChars[d] = c

DigitVal(c) == (CHOOSE d \in 1..10 : DigitChars[d] = c) - 1

\* JavaScript values that split('.').map(Number) and destructuring produce
Num(n) == [t |-> "number", n |-> n]
NaN == [t |-> "NaN", n |-> 0]
Undefined == [t |-> "undefined", n |-> 0]

\* String.prototype.split(sep) for a non-empty separator
RECURSIVE splitFrom(_, _, _, _)
splitFrom(s, sep, n, cur) ==
    IF n > Len(s) THEN <<cur>>
    ELSE IF n + Len(sep) - 1 <= Len(s) /\ SubSeq(s, n, n + Len(sep) - 1) = sep
    THEN <<cur>> \o splitFrom(s, sep, n + Len(sep), <<>>)
    ELSE splitFrom(s, sep, n + 1, Append(cur, s[n]))

split(s, sep) == splitFrom(s, sep, 1, <<>>)

\* String.prototype.includes(c) for a one-character c
includes(s, c) == \E n \in 1..Len(s) : s[n] = c

RECURSIVE DecimalValue(_)
DecimalValue(ds) ==
    IF ds = <<>> THEN 0
    ELSE 10 * DecimalValue(SubSeq(ds, 1, Len(ds) - 1)) + DigitVal(ds[Len(ds)])

\* Number(string) over the characters used here (digits, '.', '-', the
\* letters of a prerelease tag): "" is 0, a run of digits its decimal value,
\* a signed run of digits its negative, anything else NaN
Number(s) ==
    IF s = <<>> THEN Num(0)
    ELSE IF \A n \in 1..Len(s) : IsDigit(s[n]) THEN Num(DecimalValue(s))
    ELSE IF Len(s) > 1 /\ s[1] = "-" /\ \A n \in 2..Len(s) : IsDigit(s[n])
    THEN Num(0 - DecimalValue(Tail(s)))
    ELSE NaN

\* version.split('.').map(Number)
splitMapNumber(version) ==
    LET parts == split(version, <<".">>)
    IN [n \in 1..Len(parts) |-> Number(parts[n])]

\* const [a, b, c] = array: a missing element is undefined
At(arr, n) == IF n <= Len(arr) THEN arr[n] ELSE Undefined

\* a === b on numbers, NaN and undefined
StrictEq(a, b) ==
    \/ a.t = "number" /\ b.t = "number" /\ a.n = b.n
    \/ a.t = "undefined" /\ b.t = "undefined"

\* a > b: false when either side is NaN or undefined
Gt(a, b) == a.t = "number" /\ b.t = "number" /\ a.n > b.n

\* a - b
Minus(a, b) == IF a.t = "number" /\ b.t = "number" THEN Num(a.n - b.n) ELSE NaN

(***************************************************************************)
(* Part 2: PackageInfoService                                              *)
(***************************************************************************)
\* a comparator that looks at the major component only
semverCompareMajorOnly(a, b) ==
    Minus(At(splitMapNumber(a), 1), At(splitMapNumber(b), 1))

\* the comparator passed to sort() in setLastPatchVersion, setLastMinorVersion
\* and setLatestVersion
semverCompare(a, b) ==
    LET pa == splitMapNumber(a)
        pb == splitMapNumber(b)
    IN  IF ~StrictEq(At(pa, 1), At(pb, 1)) THEN Minus(At(pa, 1), At(pb, 1))
        ELSE IF ~StrictEq(At(pa, 2), At(pb, 2)) THEN Minus(At(pa, 2), At(pb, 2))
        ELSE Minus(At(pa, 3), At(pb, 3))

\* Array.prototype.sort's SortCompare: a NaN from the comparator counts as +0
Before(a, b) ==
    LET v == semverCompare(a, b) IN v.t = "number" /\ v.n < 0

\* Array.prototype.sort(comparator): a stable sort (insertion sort here; the
\* version keys of a registry payload give a consistent comparator)
RECURSIVE insertSorted(_, _)
insertSorted(sorted, x) ==
    IF sorted = <<>> THEN <<x>>
    ELSE IF Before(x, sorted[Len(sorted)])
    THEN Append(insertSorted(SubSeq(sorted, 1, Len(sorted) - 1), x), sorted[Len(sorted)])
    ELSE Append(sorted, x)

RECURSIVE sortVersions(_)
sortVersions(arr) ==
    IF arr = <<>> THEN <<>>
    ELSE insertSorted(sortVersions(SubSeq(arr, 1, Len(arr) - 1)), arr[Len(arr)])

\* Array.prototype.pop(): the last element, undefined for an empty array
pop(arr) == IF arr = <<>> THEN EmptyStr ELSE arr[Len(arr)]

\* Object.keys(versions).filter(version => !version.includes('-'))
filterProductionVersions(versions) ==
    SelectSeq(versions, LAMBDA version : ~includes(version, "-"))

\* setInstalledVersion: npmListDepItem?.version || '' ; the field is set only
\* when that is truthy
setInstalledVersion(depItem) ==
    IF depItem.present THEN depItem.version ELSE EmptyStr

\* a patch filter that forgets vMinor === minor
patchFilterAnyMinor(installed, version) ==
    LET iv == splitMapNumber(installed)
        pv == splitMapNumber(version)
    IN  /\ StrictEq(At(pv, 1), At(iv, 1))
        /\ Gt(At(pv, 3), At(iv, 3))

\* the filter callback of setLastPatchVersion
patchFilter(installed, version) ==
    LET iv == splitMapNumber(installed)
        pv == splitMapNumber(version)
    IN  /\ StrictEq(At(pv, 1), At(iv, 1))
        /\ StrictEq(At(pv, 2), At(iv, 2))
        /\ Gt(At(pv, 3), At(iv, 3))

setLastPatchVersion(installed, registryData) ==
    IF installed = EmptyStr \/ ~registryData.present THEN EmptyStr
    ELSE pop(sortVersions(SelectSeq(filterProductionVersions(registryData.versions),
                                    LAMBDA version : patchFilter(installed, version))))

\* a minor filter with vMinor >= minor in place of vMinor > minor
minorFilterNotStrict(installed, version) ==
    LET iv == splitMapNumber(installed)
        pv == splitMapNumber(version)
    IN  /\ StrictEq(At(pv, 1), At(iv, 1))
        /\ ~Gt(At(iv, 2), At(pv, 2))

\* the filter callback of setLastMinorVersion
minorFilter(installed, version) ==
    LET iv == splitMapNumber(installed)
        pv == splitMapNumber(version)
    IN  /\ StrictEq(At(pv, 1), At(iv, 1))
        /\ Gt(At(pv, 2), At(iv, 2))

setLastMinorVersion(installed, registryData) ==
    IF installed = EmptyStr \/ ~registryData.present THEN EmptyStr
    ELSE pop(sortVersions(SelectSeq(filterProductionVersions(registryData.versions),
                                    LAMBDA version : minorFilter(installed, version))))

setLatestVersion(registryData) ==
    IF ~registryData.present THEN EmptyStr
    ELSE pop(sortVersions(filterProductionVersions(registryData.versions)))

\* a classifier that tests the major component last
setPackageStatusMajorLast(installed, latest) ==
    IF installed = EmptyStr \/ latest = EmptyStr THEN "undefined"
    ELSE LET iv == splitMapNumber(installed)
             lv == splitMapNumber(latest)
         IN  IF /\ StrictEq(At(iv, 1), At(lv, 1))
                /\ StrictEq(At(iv, 2), At(lv, 2))
                /\ StrictEq(At(iv, 3), At(lv, 3))
             THEN "upToDate"
             ELSE IF ~StrictEq(At(iv, 3), At(lv, 3)) THEN "patch"
             ELSE IF ~StrictEq(At(iv, 2), At(lv, 2)) THEN "minor"
             ELSE "major"

setPackageStatus(installed, latest) ==
    IF installed = EmptyStr \/ latest = EmptyStr THEN "undefined"
    ELSE LET iv == splitMapNumber(installed)
             lv == splitMapNumber(latest)
         IN  IF /\ StrictEq(At(iv, 1), At(lv, 1))
                /\ StrictEq(At(iv, 2), At(lv, 2))
                /\ StrictEq(At(iv, 3), At(lv, 3))
             THEN "upToDate"
             ELSE IF StrictEq(At(iv, 1), At(lv, 1)) /\ StrictEq(At(iv, 2), At(lv, 2))
             THEN "patch"
             ELSE IF StrictEq(At(iv, 1), At(lv, 1))
             THEN "minor"
             ELSE "major"

(***************************************************************************)
(* Part 2: resolved locations (setRegistrySource, isNpmRegistryUrl)        *)
(***************************************************************************)
\* String.prototype.startsWith(p)
startsWith(s, p) == Len(s) >= Len(p) /\ SubSeq(s, 1, Len(p)) = p

\* String.prototype.includes(p) for a string p
includesString(s, p) ==
    \E k \in 1..(Len(s) - Len(p) + 1) : SubSeq(s, k, k + Len(p) - 1) = p

\* String.prototype.substring(n)
substring(s, n) == SubSeq(s, n + 1, Len(s))

\* String.prototype.charAt(n)
charAt(s, n) == IF n < Len(s) THEN <<s[n + 1]>> ELSE EmptyStr

LowerChars == <<"a", "b", "c", "d", "e", "f", "g", "h", "i", "j", "k", "l", "m", "n", "o", "p", "q", "r", "s", "t", "u", "v", "w", "x", "y", "z">>

UpperChars == <<"A", "B", "C", "D", "E", "F", "G", "H", "I", "J", "K", "L", "M", "N", "O", "P", "Q", "R", "S", "T", "U", "V", "W", "X", "Y", "Z">>

AsciiAlpha == { LowerChars[k] : k \in 1..26 } \cup { UpperChars[k] : k \in 1..26 }

toLowerChar(c) ==
    IF \E k \in 1..26 : UpperChars[k] = c
    THEN LowerChars[CHOOSE k \in 1..26 : UpperChars[k] = c]
    ELSE c

\* String.prototype.toLowerCase over ASCII
toLowerCase(s) == IF s = EmptyStr THEN EmptyStr ELSE [k \in 1..Len(s) |-> toLowerChar(s[k])]

\* the first position of s that holds a character of cs, Len(s) + 1 if none
firstOf(s, cs) ==
    IF \E k \in 1..Len(s) : s[k] \in cs
    THEN CHOOSE k \in 1..Len(s) : s[k] \in cs /\ \A j \in 1..(k - 1) : s[j] \notin cs
    ELSE Len(s) + 1

\* the first position of s that holds a character outside cs, Len(s) + 1 if none
firstNotOf(s, cs) ==
    IF \E k \in 1..Len(s) : s[k] \notin cs
    THEN CHOOSE k \in 1..Len(s) : s[k] \notin cs /\ \A j \in 1..(k - 1) : s[j] \in cs
    ELSE Len(s) + 1

\* the last position of s that holds a character of cs, 0 if none
lastOf(s, cs) ==
    IF \E k \in 1..Len(s) : s[k] \in cs
    THEN CHOOSE k \in 1..Len(s) : s[k] \in cs /\ \A j \in (k + 1)..Len(s) : s[j] \notin cs
    ELSE 0

NPM_REGISTRY_HOST == <<"r", "e", "g", "i", "s", "t", "r", "y", ".", "n", "p", "m", "j", "s", ".", "o", "r", "g">>

\* new URL(s) of the WHATWG URL Standard, restricted to what the callers
\* read: whether parsing succeeds, and host, origin and pathname.  Modelled:
\* the scheme and its validity, the slashes after a special scheme, the
\* authority with userinfo, host and port, a default port dropped from
\* host, host and scheme lower-cased, forbidden host characters, an empty
\* host, the query and the fragment cut off the path.  Not modelled (no
\* input here has them): dot segments, percent-encoding, IPv6 and IDNA hosts.
SchemeChars == AsciiAlpha \cup { DigitChars[d] : d \in 1..10 } \cup {"+", "-", "."}

\* the special schemes whose URLs always have an authority
AuthoritySchemes == { <<"h", "t", "t", "p">>, <<"h", "t", "t", "p", "s">>, <<"f", "t", "p">>, <<"w", "s">>, <<"w", "s", "s">> }

ForbiddenHostChars == {" ", "<", ">", "[", "]", "^", "|", "%", ":", "@", "/", "?", "#", "\\"}

defaultPort(scheme) ==
    IF scheme = <<"h", "t", "t", "p">> \/ scheme = <<"w", "s">> THEN <<"8", "0">>
    ELSE IF scheme = <<"h", "t", "t", "p", "s">> \/ scheme = <<"w", "s", "s">> THEN <<"4", "4", "3">>
    ELSE IF scheme = <<"f", "t", "p">> THEN <<"2", "1">>
    ELSE EmptyStr

URLFailure == [ok |-> FALSE, host |-> EmptyStr, origin |-> EmptyStr, pathname |-> EmptyStr]

\* the result record: host, origin and pathname
URLFields(scheme, host, rawPath) ==
    [ ok |-> TRUE,
      host |-> host,
      origin |-> IF scheme \in AuthoritySchemes THEN scheme \o <<":", "/", "/">> \o host
                 ELSE <<"n", "u", "l", "l">>,
      pathname |-> IF scheme \in AuthoritySchemes /\ rawPath = EmptyStr THEN <<"/">>
                   ELSE rawPath ]

\* host and port validation; a default port is dropped from host
URLRecord(scheme, hostname, port, rawPath) ==
    IF \/ \E k \in 1..Len(hostname) : hostname[k] \in ForbiddenHostChars
       \/ \E k \in 1..Len(port) : ~IsDigit(port[k])
       \/ scheme \in AuthoritySchemes /\ hostname = EmptyStr
    THEN URLFailure
    ELSE URLFields(scheme,
                   IF port = EmptyStr \/ port = defaultPort(scheme) THEN hostname
                   ELSE hostname \o <<":">> \o port,
                   rawPath)

\* the path ends at the query or the fragment; the host of a special scheme
\* is lower-cased
URLPath(scheme, rawHost, port, tail) ==
    URLRecord(scheme,
              IF scheme \in AuthoritySchemes THEN toLowerCase(rawHost) ELSE rawHost,
              port,
              SubSeq(tail, 1, firstOf(tail, {"?", "#"}) - 1))

\* host and port are split at the last ':' (position colon, 0 if none)
URLSplitPort(scheme, hostport, colon, tail) ==
    URLPath(scheme,
            IF colon = 0 THEN hostport ELSE SubSeq(hostport, 1, colon - 1),
            IF colon = 0 THEN EmptyStr ELSE SubSeq(hostport, colon + 1, Len(hostport)),
            tail)

\* the userinfo before the last '@' is dropped
URLHostPort(scheme, authority, tail) ==
    URLSplitPort(scheme,
                 SubSeq(authority, lastOf(authority, {"@"}) + 1, Len(authority)),
                 lastOf(SubSeq(authority, lastOf(authority, {"@"}) + 1, Len(authority)), {":"}),
                 tail)

\* the authority ends at the first of the characters ends
URLAuthority(scheme, body, ends) ==
    URLHostPort(scheme,
                SubSeq(body, 1, firstOf(body, ends) - 1),
                SubSeq(body, firstOf(body, ends), Len(body)))

\* after the scheme: a special scheme skips any slashes and backslashes and
\* reads an authority; another scheme has one only after '//'
URLAfterScheme(scheme, rest) ==
    IF scheme \in AuthoritySchemes
    THEN URLAuthority(scheme, SubSeq(rest, firstNotOf(rest, {"/", "\\"}), Len(rest)),
                      {"/", "\\", "?", "#"})
    ELSE IF startsWith(rest, <<"/", "/">>)
    THEN URLAuthority(scheme, substring(rest, 2), {"/", "?", "#"})
    ELSE URLPath(scheme, EmptyStr, EmptyStr, rest)

\* the scheme ends at the first ':' (position c); without a valid scheme the
\* string is a relative reference, which new URL(s) rejects
URLScheme(s, c) ==
    IF /\ c > 1
       /\ c <= Len(s)
       /\ s[1] \in AsciiAlpha
       /\ \A k \in 2..(c - 1) : s[k] \in SchemeChars
    THEN URLAfterScheme(toLowerCase(SubSeq(s, 1, c - 1)), SubSeq(s, c + 1, Len(s)))
    ELSE URLFailure

URLParse(s) == URLScheme(s, firstOf(s, {":"}))

\* isNpmRegistryUrl(url): false for a falsy url and when new URL throws
isNpmRegistryUrl(url) ==
    /\ url # EmptyStr
    /\ URLParse(url).ok
    /\ URLParse(url).host = NPM_REGISTRY_HOST

\* a custom-registry branch that forgets to strip the tarball suffix
customRegistrySourceKeepsTarball(resolvedUrl) ==
    IF ~URLParse(resolvedUrl).ok
    THEN [value |-> resolvedUrl, error |-> "caught"]
    ELSE [value |-> resolvedUrl, error |-> "none"]

\* setRegistrySource, the branch of an http(s) URL that is neither the npm
\* registry nor a git host; new URL throwing lands in the catch clause, which
\* logs the error and keeps the raw resolved string
customRegistrySource(resolvedUrl) ==
    LET url == URLParse(resolvedUrl)
        pathParts == split(url.pathname, <<"/", "-", "/">>)
    IN  IF ~url.ok
        THEN [value |-> resolvedUrl, error |-> "caught"]
        ELSE IF Len(pathParts) > 1
        THEN [value |-> url.origin \o pathParts[1], error |-> "none"]
        ELSE [value |-> resolvedUrl, error |-> "none"]

\* setRegistrySource without its try/catch: the TypeError of new URL escapes
\* the constructor
setRegistrySourceNoCatch(depItem) ==
    LET resolvedUrl == IF depItem.present THEN depItem.resolved ELSE EmptyStr
        ok(v) == [value |-> v, error |-> "none"]
    IN  IF resolvedUrl = EmptyStr THEN ok(EmptyStr)
        ELSE IF isNpmRegistryUrl(resolvedUrl)
        THEN ok(split(resolvedUrl, <<"/", "-", "/">>)[1])
        ELSE IF startsWith(resolvedUrl, <<"h", "t", "t", "p", "s", ":", "/", "/">>) \/ startsWith(resolvedUrl, <<"h", "t", "t", "p", ":", "/", "/">>)
        THEN IF \/ includesString(resolvedUrl, <<"g", "i", "t", "h", "u", "b", ".", "c", "o", "m">>)
                \/ includesString(resolvedUrl, <<"g", "i", "t", "l", "a", "b", ".", "c", "o", "m">>)
                \/ includesString(resolvedUrl, <<"b", "i", "t", "b", "u", "c", "k", "e", "t", ".", "o", "r", "g">>)
             THEN ok(split(resolvedUrl, <<"#">>)[1])
             ELSE IF customRegistrySource(resolvedUrl).error = "caught"
             THEN [value |-> EmptyStr, error |-> "uncaught"]
             ELSE customRegistrySource(resolvedUrl)
        ELSE IF startsWith(resolvedUrl, <<"g", "i", "t", "+">>)
        THEN ok(split(substring(resolvedUrl, 4), <<"#">>)[1])
        ELSE IF startsWith(resolvedUrl, <<"f", "i", "l", "e", ":">>)
        THEN ok(resolvedUrl)
        ELSE IF startsWith(resolvedUrl, <<"n", "p", "m", ":">>)
        THEN ok(<<"h", "t", "t", "p", "s", ":", "/", "/">> \o NPM_REGISTRY_HOST \o <<"/">>
                \o split(substring(resolvedUrl, 4), <<"@">>)[1])
        ELSE ok(resolvedUrl)

\* setRegistrySource: the registrySource for npmListDepItem?.resolved, and
\* whether the catch clause ran
setRegistrySource(depItem) ==
    LET resolvedUrl == IF depItem.present THEN depItem.resolved ELSE EmptyStr
        ok(v) == [value |-> v, error |-> "none"]
    IN  IF resolvedUrl = EmptyStr THEN ok(EmptyStr)
        ELSE IF isNpmRegistryUrl(resolvedUrl)
        THEN ok(split(resolvedUrl, <<"/", "-", "/">>)[1])
        ELSE IF startsWith(resolvedUrl, <<"h", "t", "t", "p", "s", ":", "/", "/">>) \/ startsWith(resolvedUrl, <<"h", "t", "t", "p", ":", "/", "/">>)
        THEN IF \/ includesString(resolvedUrl, <<"g", "i", "t", "h", "u", "b", ".", "c", "o", "m">>)
                \/ includesString(resolvedUrl, <<"g", "i", "t", "l", "a", "b", ".", "c", "o", "m">>)
                \/ includesString(resolvedUrl, <<"b", "i", "t", "b", "u", "c", "k", "e", "t", ".", "o", "r", "g">>)
             THEN ok(split(resolvedUrl, <<"#">>)[1])
             ELSE customRegistrySource(resolvedUrl)
        ELSE IF startsWith(resolvedUrl, <<"g", "i", "t", "+">>)
        THEN ok(split(substring(resolvedUrl, 4), <<"#">>)[1])
        ELSE IF startsWith(resolvedUrl, <<"f", "i", "l", "e", ":">>)
        THEN ok(resolvedUrl)
        ELSE IF startsWith(resolvedUrl, <<"n", "p", "m", ":">>)
        THEN ok(<<"h", "t", "t", "p", "s", ":", "/", "/">> \o NPM_REGISTRY_HOST \o <<"/">>
                \o split(substring(resolvedUrl, 4), <<"@">>)[1])
        ELSE ok(resolvedUrl)

(***************************************************************************)
(* Part 2: deprecation                                                     *)
(***************************************************************************)
\* isVersionDeprecated(version): "undefined" without registry data, else
\* whether the version's own entry carries a truthy deprecated field
isVersionDeprecated(version, registryData) ==
    IF ~registryData.present THEN "undefined"
    ELSE IF version \in registryData.deprecatedKeys THEN "true"
    ELSE "false"

\* the deprecated field of a version info; "absent" when the record has no
\* such version info
deprecatedOf(version, registryData) ==
    IF version = EmptyStr THEN "absent" ELSE isVersionDeprecated(version, registryData)

(***************************************************************************)
(* Part 3: UpdateService (the update planner)                              *)
(***************************************************************************)
\* a || b on optional strings
Or(a, b) == IF a # EmptyStr THEN a ELSE b

\* a serialization that keeps versionLast when it equals lastMinor
getInfoKeepsLastMinor(this) ==
    LET same(v) == v # EmptyStr /\ this.versionLast # EmptyStr /\ v = this.versionLast
        isSameVersion == same(this.versionInstalled)
        isLastPatchSameAsLast == same(this.versionLastPatch)
    IN  [ packageName |-> this.packageName,
          versionRequired |-> this.versionRequired,
          versionInstalled |-> this.versionInstalled,
          versionLastPatch |-> this.versionLastPatch,
          versionLastMinor |-> this.versionLastMinor,
          registrySource |-> this.registrySource,
          updateStatus |-> this.updateStatus,
          versionLast |-> IF ~isSameVersion /\ ~isLastPatchSameAsLast
                          THEN this.versionLast ELSE EmptyStr ]

\* PackageInfoService.getInfo(): the serialized record; versionLast is left
\* out when its version equals the installed, lastMinor or lastPatch version
getInfo(this) ==
    LET same(v) == v # EmptyStr /\ this.versionLast # EmptyStr /\ v = this.versionLast
        isSameVersion == same(this.versionInstalled)
        isLastMinorSameAsLast == same(this.versionLastMinor)
        isLastPatchSameAsLast == same(this.versionLastPatch)
    IN  [ packageName |-> this.packageName,
          versionRequired |-> this.versionRequired,
          versionInstalled |-> this.versionInstalled,
          versionLastPatch |-> this.versionLastPatch,
          versionLastMinor |-> this.versionLastMinor,
          registrySource |-> this.registrySource,
          updateStatus |-> this.updateStatus,
          versionLast |-> IF ~isSameVersion /\ ~isLastMinorSameAsLast /\ ~isLastPatchSameAsLast
                          THEN this.versionLast ELSE EmptyStr ]

\* the fields of the record the state holds
thisRecord ==
    [ packageName |-> "lodash",
      versionRequired |-> versionRequired,
      versionInstalled |-> versionInstalled,
      versionLastPatch |-> versionLastPatch,
      versionLastMinor |-> versionLastMinor,
      versionLast |-> versionLast,
      registrySource |-> registrySource,
      updateStatus |-> updateStatus ]

\* new PackageInfoService(...): the fields a constructor call leaves
PackageInfoService(name, required, depItem, registryData) ==
    LET installed == setInstalledVersion(depItem)
        latest == setLatestVersion(registryData)
    IN  [ packageName |-> name,
          versionRequired |-> required,
          versionInstalled |-> installed,
          versionLastPatch |-> setLastPatchVersion(installed, registryData),
          versionLastMinor |-> setLastMinorVersion(installed, registryData),
          versionLast |-> latest,
          registrySource |-> setRegistrySource(depItem).value,
          updateStatus |-> setPackageStatus(installed, latest) ]

\* a filter that forgets to skip the packages outside the npm registry
getUpdatablePackagesAnySource(pkgs) ==
    SelectSeq(pkgs, LAMBDA packageSpec : packageSpec.versionInstalled # EmptyStr)

\* getUpdatablePackages: records with an installed version whose
\* registrySource is an npm registry URL
getUpdatablePackages(pkgs) ==
    SelectSeq(pkgs,
              LAMBDA packageSpec :
                  /\ packageSpec.versionInstalled # EmptyStr
                  /\ packageSpec.registrySource # EmptyStr
                  /\ isNpmRegistryUrl(packageSpec.registrySource))

\* getVersionPrefix(versionRequired)
getVersionPrefix(required) ==
    IF startsWith(required, <<"^">>) \/ startsWith(required, <<"~">>)
    THEN charAt(required, 0)
    ELSE EmptyStr

\* a target choice whose level minor reads versionLast first
targetVersionMinorTakesLast(packageInfo, level) ==
    IF level = "patch" THEN packageInfo.versionLastPatch
    ELSE Or(packageInfo.versionLast,
            Or(packageInfo.versionLastMinor, packageInfo.versionLastPatch))

\* a target choice whose level latest has no fallback
targetVersionLatestOnly(packageInfo, level) ==
    IF level = "latest" THEN packageInfo.versionLast
    ELSE IF level = "minor"
    THEN Or(packageInfo.versionLastMinor, packageInfo.versionLastPatch)
    ELSE packageInfo.versionLastPatch

\* prepareUpdates, the targetVersion of one record for the update level
targetVersion(packageInfo, level) ==
    IF level = "latest"
    THEN Or(packageInfo.versionLast,
            Or(packageInfo.versionLastMinor, packageInfo.versionLastPatch))
    ELSE IF level = "minor"
    THEN Or(packageInfo.versionLastMinor, packageInfo.versionLastPatch)
    ELSE IF level = "patch" /\ packageInfo.versionLastPatch # EmptyStr
    THEN packageInfo.versionLastPatch
    ELSE EmptyStr

\* prepareUpdates(): one entry per updatable record that has a target;
\* targetVersion is the local variable of the loop, kept for the claims
prepareUpdates(pkgs, level) ==
    LET withTarget == SelectSeq(getUpdatablePackages(pkgs),
                                LAMBDA packageInfo : targetVersion(packageInfo, level) # EmptyStr)
    IN  IF withTarget = <<>> THEN <<>>
        ELSE [ k \in 1..Len(withTarget) |->
                 [ packageName |-> withTarget[k].packageName,
                   currentVersion |-> withTarget[k].versionRequired,
                   newVersion |-> getVersionPrefix(withTarget[k].versionRequired)
                                  \o targetVersion(withTarget[k], level),
                   updateType |-> IF withTarget[k].updateStatus = "undefined" THEN "patch"
                                  ELSE withTarget[k].updateStatus,
                   targetVersion |-> targetVersion(withTarget[k], level) ] ]

(***************************************************************************)
(* Part 2: inputs                                                          *)
(***************************************************************************)
\* decimal digits of a natural number
RECURSIVE DecStr(_)
DecStr(n) == IF n < 10 THEN <<DigitChars[n + 1]>>
             ELSE DecStr(n \div 10) \o <<DigitChars[(n % 10) + 1]>>

\* the version string "a.b.c"
Ver(a, b, c) == DecStr(a) \o <<".">> \o DecStr(b) \o <<".">> \o DecStr(c)

Triples == { <<1, 2, 3>>, <<1, 2, 4>>, <<1, 2, 10>>, <<1, 3, 0>>, <<1, 10, 0>>, <<2, 0, 0>> }

ReleaseVersions == { Ver(t[1], t[2], t[3]) : t \in Triples }

\* prereleases: "2.1.0-rc" and "1.3.1-b.1"
PrereleaseVersions == { Ver(2, 1, 0) \o <<"-", "r", "c">>,
                        Ver(1, 3, 1) \o <<"-", "b", ".", "1">> }

\* version keys a registry payload can carry
RegistryVersions == ReleaseVersions \cup PrereleaseVersions

\* versions npm list can report for a lock entry: any published one, or one
\* the registry payload does not list
InstalledVersions == RegistryVersions \cup { Ver(2, 1, 0) }

\* the keys of the versions object, in insertion order: any arrangement of
\* at most MaxVersions distinct keys
VersionLists ==
    { vs \in UNION { [1..n -> RegistryVersions] : n \in 0..MaxVersions } :
        \A x, y \in DOMAIN vs : x < y => vs[x] # vs[y] }

NoLockEntry == [present |-> FALSE, version |-> EmptyStr, resolved |-> EmptyStr]

NoRegistryData == [present |-> FALSE, versions |-> <<>>, deprecatedKeys |-> {},
                   deprecated |-> FALSE]

\* the record fields that only a finished constructor or planner sets
NoResults ==
    /\ versionInstalled = EmptyStr
    /\ versionLastPatch = EmptyStr
    /\ versionLastMinor = EmptyStr
    /\ versionLast = EmptyStr
    /\ updateStatus = "undefined"
    /\ registrySource = EmptyStr
    /\ registryError = "none"
    /\ deprecated = [installed |-> "absent", lastPatch |-> "absent",
                     lastMinor |-> "absent", last |-> "absent"]
    /\ updates = <<>>

\* no applyUpdates call has returned
NotReturned == -1

\* the process has not ended
NotExited == -1

\* a manifest without dependencies
NoManifest == [n \in PackageNames |-> EmptyStr]

\* part 4 at rest, while another part runs
IdleRun ==
    /\ rpc = "idle"
    /\ dryRun = FALSE
    /\ packageInfoList = <<>>
    /\ manifestAtStart = NoManifest
    /\ manifestFile = NoManifest
    /\ packageJson = NoManifest
    /\ applied = 0
    /\ updatedCount = 0
    /\ writes = 0
    /\ returned = NotReturned
    /\ command = "none"
    /\ failure = "none"
    /\ exitCode = NotExited
    /\ reports = 0
    /\ callLog = <<>>

\* parts 2 and 3 at rest, while part 4 runs
IdleRecord ==
    /\ phase = "input"
    /\ npmListDepItem = NoLockEntry
    /\ npmRegistryData = NoRegistryData
    /\ versionRequired = EmptyStr
    /\ NoResults

\* part 2 at rest, while part 1 runs
IdleInfo ==
    /\ phase = "input"
    /\ npmListDepItem = NoLockEntry
    /\ npmRegistryData = NoRegistryData
    /\ versionRequired = EmptyStr
    /\ updateLevel = "latest"
    /\ NoResults
    /\ IdleRun

\* part 1 at rest, while part 2 runs
IdleFetch ==
    /\ caller = "direct"
    /\ data = <<>>
    /\ limit = DefaultLimit
    /\ pc = "idle"
    /\ stage = 1
    /\ i = 0
    /\ st = <<>>
    /\ results = <<>>
    /\ started = <<>>
    /\ fetches = <<>>
    /\ npmViewDataResponses = <<>>
    /\ list = <<>>
    /\ getList = "none"
    /\ outOfOrder = FALSE

\* the constructor arguments of PackageInfoService
InitInfo ==
    /\ phase = "input"
    /\ npmListDepItem \in
           {NoLockEntry} \cup { [present |-> TRUE, version |-> v, resolved |-> EmptyStr] :
                                  v \in InstalledVersions }
    /\ npmRegistryData \in
           {NoRegistryData} \cup { [present |-> TRUE, versions |-> vs, deprecatedKeys |-> {},
                                    deprecated |-> FALSE] : vs \in VersionLists }
    /\ versionRequired = EmptyStr
    /\ updateLevel = "latest"
    /\ NoResults
    /\ IdleRun

\* ---- inputs of the update planner ----
\* the versions a registry payload of the planner's record can list, ascending
PlanVersionOrder == <<Ver(1, 2, 3), Ver(1, 2, 4), Ver(1, 3, 0), Ver(2, 0, 0)>>

PlanVersions == { PlanVersionOrder[k] : k \in DOMAIN PlanVersionOrder }

\* the versions the lock entry of the planner's record can name
PlanInstalled == { Ver(1, 2, 3), Ver(2, 0, 0) }

\* registry payloads: any subset of the versions, any of them deprecated,
\* with or without a package-level deprecated field
PlanRegistryData ==
    UNION { { [ present |-> TRUE,
                versions |-> SelectSeq(PlanVersionOrder, LAMBDA v : v \in keys),
                deprecatedKeys |-> dep,
                deprecated |-> d ] : dep \in SUBSET keys, d \in BOOLEAN } :
            keys \in SUBSET PlanVersions }

\* a manifest range with the resolved field of its lock entry
Declarations ==
    {
      \* a caret range, resolved by the npm registry
      [ versionRequired |-> <<"^", "1", ".", "2", ".", "3">>,
        resolved |-> <<"h", "t", "t", "p", "s", ":", "/", "/", "r", "e", "g", "i", "s", "t", "r", "y", ".", "n", "p", "m", "j", "s", ".", "o", "r", "g", "/", "l", "o", "d", "a", "s", "h", "/", "-", "/", "l", "o", "d", "a", "s", "h", "-", "1", ".", "2", ".", "3", ".", "t", "g", "z">> ],
      \* a tilde range
      [ versionRequired |-> <<"~", "1", ".", "2", ".", "3">>,
        resolved |-> <<"h", "t", "t", "p", "s", ":", "/", "/", "r", "e", "g", "i", "s", "t", "r", "y", ".", "n", "p", "m", "j", "s", ".", "o", "r", "g", "/", "l", "o", "d", "a", "s", "h", "/", "-", "/", "l", "o", "d", "a", "s", "h", "-", "1", ".", "2", ".", "3", ".", "t", "g", "z">> ],
      \* an exact version
      [ versionRequired |-> <<"1", ".", "2", ".", "3">>,
        resolved |-> <<"h", "t", "t", "p", "s", ":", "/", "/", "r", "e", "g", "i", "s", "t", "r", "y", ".", "n", "p", "m", "j", "s", ".", "o", "r", "g", "/", "l", "o", "d", "a", "s", "h", "/", "-", "/", "l", "o", "d", "a", "s", "h", "-", "1", ".", "2", ".", "3", ".", "t", "g", "z">> ],
      \* a scoped package of the npm registry
      [ versionRequired |-> <<"^", "1", ".", "2", ".", "3">>,
        resolved |-> <<"h", "t", "t", "p", "s", ":", "/", "/", "r", "e", "g", "i", "s", "t", "r", "y", ".", "n", "p", "m", "j", "s", ".", "o", "r", "g", "/", "@", "s", "c", "o", "p", "e", "/", "p", "k", "g", "/", "-", "/", "p", "k", "g", "-", "1", ".", "2", ".", "3", ".", "t", "g", "z">> ],
      \* an npm registry location without a tarball suffix
      [ versionRequired |-> <<"^", "1", ".", "2", ".", "3">>,
        resolved |-> <<"h", "t", "t", "p", "s", ":", "/", "/", "r", "e", "g", "i", "s", "t", "r", "y", ".", "n", "p", "m", "j", "s", ".", "o", "r", "g", "/", "l", "o", "d", "a", "s", "h">> ],
      \* a tarball of another registry
      [ versionRequired |-> <<"^", "1", ".", "2", ".", "3">>,
        resolved |-> <<"h", "t", "t", "p", "s", ":", "/", "/", "r", "e", "g", "i", "s", "t", "r", "y", ".", "e", "x", "a", "m", "p", "l", "e", "/", "l", "o", "d", "a", "s", "h", "/", "-", "/", "l", "o", "d", "a", "s", "h", "-", "4", ".", "1", "7", ".", "2", "1", ".", "t", "g", "z">> ],
      \* a location of another registry without a tarball suffix
      [ versionRequired |-> <<"^", "1", ".", "2", ".", "3">>,
        resolved |-> <<"h", "t", "t", "p", "s", ":", "/", "/", "r", "e", "g", "i", "s", "t", "r", "y", ".", "e", "x", "a", "m", "p", "l", "e", "/", "l", "o", "d", "a", "s", "h">> ],
      \* a host that only resembles the npm registry
      [ versionRequired |-> <<"^", "1", ".", "2", ".", "3">>,
        resolved |-> <<"h", "t", "t", "p", "s", ":", "/", "/", "r", "e", "g", "i", "s", "t", "r", "y", ".", "n", "p", "m", "j", "s", ".", "c", "o", "m", "/", "l", "o", "d", "a", "s", "h", "/", "-", "/", "l", "o", "d", "a", "s", "h", "-", "1", ".", "2", ".", "3", ".", "t", "g", "z">> ],
      \* an alias, resolved as an alias
      [ versionRequired |-> <<"n", "p", "m", ":", "l", "o", "d", "a", "s", "h", "@", "^", "1", ".", "2", ".", "3">>,
        resolved |-> <<"n", "p", "m", ":", "l", "o", "d", "a", "s", "h", "@", "1", ".", "2", ".", "3">> ],
      \* an alias of a scoped package
      [ versionRequired |-> <<"n", "p", "m", ":", "@", "s", "c", "o", "p", "e", "/", "p", "k", "g", "@", "^", "1", ".", "0", ".", "0">>,
        resolved |-> <<"n", "p", "m", ":", "@", "s", "c", "o", "p", "e", "/", "p", "k", "g", "@", "1", ".", "0", ".", "0">> ],
      \* an alias, resolved by the npm registry
      [ versionRequired |-> <<"n", "p", "m", ":", "l", "o", "d", "a", "s", "h", "@", "^", "1", ".", "2", ".", "3">>,
        resolved |-> <<"h", "t", "t", "p", "s", ":", "/", "/", "r", "e", "g", "i", "s", "t", "r", "y", ".", "n", "p", "m", "j", "s", ".", "o", "r", "g", "/", "l", "o", "d", "a", "s", "h", "/", "-", "/", "l", "o", "d", "a", "s", "h", "-", "1", ".", "2", ".", "3", ".", "t", "g", "z">> ],
      \* a git dependency over ssh
      [ versionRequired |-> <<"g", "i", "t", "h", "u", "b", ":", "u", "s", "e", "r", "/", "r", "e", "p", "o">>,
        resolved |-> <<"g", "i", "t", "+", "s", "s", "h", ":", "/", "/", "g", "i", "t", "@", "g", "i", "t", "h", "u", "b", ".", "c", "o", "m", "/", "u", "s", "e", "r", "/", "r", "e", "p", "o", ".", "g", "i", "t", "#", "a", "b", "c", "1", "2", "3">> ],
      \* a git dependency over https
      [ versionRequired |-> <<"g", "i", "t", "+", "h", "t", "t", "p", "s", ":", "/", "/", "g", "i", "t", "h", "u", "b", ".", "c", "o", "m", "/", "u", "s", "e", "r", "/", "r", "e", "p", "o", ".", "g", "i", "t">>,
        resolved |-> <<"g", "i", "t", "+", "h", "t", "t", "p", "s", ":", "/", "/", "g", "i", "t", "h", "u", "b", ".", "c", "o", "m", "/", "u", "s", "e", "r", "/", "r", "e", "p", "o", ".", "g", "i", "t", "#", "a", "b", "c", "1", "2", "3">> ],
      \* a tarball of a git host
      [ versionRequired |-> <<"h", "t", "t", "p", "s", ":", "/", "/", "g", "i", "t", "h", "u", "b", ".", "c", "o", "m", "/", "u", "s", "e", "r", "/", "r", "e", "p", "o", "/", "t", "a", "r", "b", "a", "l", "l", "/", "v", "1">>,
        resolved |-> <<"h", "t", "t", "p", "s", ":", "/", "/", "g", "i", "t", "h", "u", "b", ".", "c", "o", "m", "/", "u", "s", "e", "r", "/", "r", "e", "p", "o", "/", "t", "a", "r", "b", "a", "l", "l", "/", "v", "1", "#", "a", "b", "c", "1", "2", "3">> ],
      \* a local directory
      [ versionRequired |-> <<"f", "i", "l", "e", ":", ".", ".", "/", "l", "o", "c", "a", "l">>,
        resolved |-> <<"f", "i", "l", "e", ":", ".", ".", "/", "l", "o", "c", "a", "l">> ],
      \* a home-relative path whose lock entry still names the registry
      [ versionRequired |-> <<"~", "/", "l", "o", "c", "a", "l", "/", "p", "k", "g">>,
        resolved |-> <<"h", "t", "t", "p", "s", ":", "/", "/", "r", "e", "g", "i", "s", "t", "r", "y", ".", "n", "p", "m", "j", "s", ".", "o", "r", "g", "/", "l", "o", "d", "a", "s", "h", "/", "-", "/", "l", "o", "d", "a", "s", "h", "-", "1", ".", "2", ".", "3", ".", "t", "g", "z">> ],
      \* a lock entry without a resolved field
      [ versionRequired |-> <<"^", "1", ".", "2", ".", "3">>,
        resolved |-> <<>> ],
      \* a malformed URL: no host
      [ versionRequired |-> <<"^", "1", ".", "2", ".", "3">>,
        resolved |-> <<"h", "t", "t", "p", "s", ":", "/", "/">> ],
      \* a malformed URL: a space in the host
      [ versionRequired |-> <<"^", "1", ".", "2", ".", "3">>,
        resolved |-> <<"h", "t", "t", "p", ":", "/", "/", "e", "x", "a", " ", "m", "p", "l", "e", ".", "t", "e", "s", "t", "/", "p", "k", "g", "/", "-", "/", "p", "k", "g", "-", "1", ".", "2", ".", "3", ".", "t", "g", "z">> ]
    }

\* one manifest declaration with its lock entry and registry payload, and
\* the --level option
InitPlanInputs ==
    /\ phase = "input"
    /\ \E d \in Declarations :
         /\ versionRequired = d.versionRequired
         /\ npmListDepItem \in
                {NoLockEntry} \cup { [present |-> TRUE, version |-> v, resolved |-> d.resolved] :
                                       v \in PlanInstalled }
    /\ npmRegistryData \in
           {NoRegistryData} \cup PlanRegistryData
    /\ updateLevel \in {"latest", "minor", "patch"}
    /\ NoResults
    /\ IdleRun

\* new PackageInfoService(args, ctx): the constructor runs the setters in order
Construct ==
    /\ phase = "input"
    /\ phase' = "built"
    /\ LET installed == setInstalledVersion(npmListDepItem)
           latest == setLatestVersion(npmRegistryData)
       IN  /\ versionInstalled' = installed
           /\ versionLastPatch' = setLastPatchVersion(installed, npmRegistryData)
           /\ versionLastMinor' = setLastMinorVersion(installed, npmRegistryData)
           /\ versionLast' = latest
           /\ updateStatus' = setPackageStatus(installed, latest)
           /\ deprecated' =
                  [ installed |-> deprecatedOf(installed, npmRegistryData),
                    lastPatch |-> deprecatedOf(setLastPatchVersion(installed, npmRegistryData),
                                               npmRegistryData),
                    lastMinor |-> deprecatedOf(setLastMinorVersion(installed, npmRegistryData),
                                               npmRegistryData),
                    last |-> deprecatedOf(latest, npmRegistryData) ]
    /\ registrySource' = setRegistrySource(npmListDepItem).value
    /\ registryError' = setRegistrySource(npmListDepItem).error
    /\ UNCHANGED <<npmListDepItem, npmRegistryData, versionRequired, updateLevel, updates>>
    /\ UNCHANGED <<fetchVars, runVars, exportVars>>

\* new UpdateService(list, ctx, level).prepareUpdates() over the one record
PrepareUpdates ==
    /\ phase = "built"
    /\ registryError # "uncaught"
    /\ phase' = "planned"
    /\ updates' = prepareUpdates(<<getInfo(thisRecord)>>, updateLevel)
    /\ UNCHANGED <<npmListDepItem, npmRegistryData, versionInstalled, versionLastPatch,
                   versionLastMinor, versionLast, updateStatus, registrySource,
                   registryError, deprecated, versionRequired, updateLevel>>
    /\ UNCHANGED <<fetchVars, runVars, exportVars>>

(***************************************************************************)
(* Part 4: the update command (updateCommand action, applyUpdates)         *)
(* The action runs synchronously except for await npmService.getList();    *)
(* the SIGINT/SIGTERM handlers are callbacks of the event loop, so they    *)
(* run only while the action is suspended there.  The synchronous part is  *)
(* split into steps to expose the states in between.                       *)
(***************************************************************************)
\* ---- inputs ----
RunRequired == { <<"^", "1", ".", "2", ".", "3">>, <<"1", ".", "2", ".", "3">>,
                 <<"^", "2", ".", "0", ".", "0">> }

RunLockEntries ==
    { NoLockEntry,
      [ present |-> TRUE, version |-> Ver(1, 2, 3),
        resolved |-> <<"h", "t", "t", "p", "s", ":", "/", "/", "r", "e", "g", "i", "s", "t", "r", "y", ".", "n", "p", "m", "j", "s", ".", "o", "r", "g", "/", "l", "o", "d", "a", "s", "h", "/", "-", "/", "l", "o", "d", "a", "s", "h", "-", "1", ".", "2", ".", "3", ".", "t", "g", "z">> ],
      [ present |-> TRUE, version |-> Ver(1, 2, 3),
        resolved |-> <<"g", "i", "t", "+", "s", "s", "h", ":", "/", "/", "g", "i", "t", "@", "g", "i", "t", "h", "u", "b", ".", "c", "o", "m", "/", "u", "s", "e", "r", "/", "r", "e", "p", "o", ".", "g", "i", "t", "#", "a", "b", "c", "1", "2", "3">> ],
      [ present |-> TRUE, version |-> Ver(2, 1, 0),
        resolved |-> <<"h", "t", "t", "p", "s", ":", "/", "/", "r", "e", "g", "i", "s", "t", "r", "y", ".", "n", "p", "m", "j", "s", ".", "o", "r", "g", "/", "l", "o", "d", "a", "s", "h", "/", "-", "/", "l", "o", "d", "a", "s", "h", "-", "1", ".", "2", ".", "3", ".", "t", "g", "z">> ] }

RunRegistryData ==
    { NoRegistryData } \cup
    { [ present |-> TRUE, versions |-> vs, deprecatedKeys |-> {}, deprecated |-> FALSE ] :
        vs \in { <<Ver(1, 2, 3)>>, <<Ver(1, 2, 3), Ver(1, 2, 4)>>,
                 <<Ver(1, 2, 3), Ver(1, 3, 0), Ver(2, 0, 0)>> } }

\* the manifest's packages in declaration order
RunPackages == <<"lodash", "react">>

\* the serialized records a package with the given range can get
RunRecords(name, required) ==
    { getInfo(PackageInfoService(name, required, lock, registryData)) :
        lock \in RunLockEntries, registryData \in RunRegistryData }

\* the values of --level the command accepts
UpdateLevels == {"latest", "minor", "patch"}

\* a manifest, and for each of its packages the record getList() will
\* resolve to
InitManifest ==
    /\ manifestFile \in [PackageNames -> RunRequired]
    /\ manifestAtStart = manifestFile
    /\ packageInfoList \in
           [ DOMAIN RunPackages -> UNION { RunRecords(n, manifestFile[n]) : n \in PackageNames } ]
    /\ \A k \in DOMAIN RunPackages : packageInfoList[k].packageName = RunPackages[k]

\* the command and its options; --level is taken in lower case, "major"
\* stands for every value outside UpdateLevels
InitOptions ==
    /\ command \in {"update", "export"}
    /\ dryRun \in (IF command = "update" THEN BOOLEAN ELSE {FALSE})
    /\ updateLevel \in (IF command = "update" THEN UpdateLevels \cup {"major"} ELSE {"latest"})

\* nothing has run yet
NothingDone ==
    /\ packageJson = NoManifest
    /\ applied = 0
    /\ updatedCount = 0
    /\ writes = 0
    /\ returned = NotReturned
    /\ failure = "none"
    /\ exitCode = NotExited
    /\ reports = 0
    /\ callLog = <<>>

\* the process starts with one of the two commands
InitRun ==
    /\ rpc = "start"
    /\ InitOptions
    /\ InitManifest
    /\ NothingDone

recordVars == <<phase, npmListDepItem, npmRegistryData, versionInstalled, versionLastPatch,
                versionLastMinor, versionLast, updateStatus, registrySource, registryError,
                deprecated, versionRequired>>

\* what no step changes
inputVars == <<command, dryRun, updateLevel, packageInfoList, manifestAtStart>>

\* ---- history of the applyUpdates calls ----
\* applyUpdates(updates, dry) is entered with the manifest file as it is
callEntered(log, dry, file) ==
    Append(log, [ dryRun |-> dry, before |-> file, after |-> file, returned |-> NotReturned,
                  wrote |-> FALSE, failed |-> FALSE ])

\* the call entered last returns value
callReturned(log, value, wroteFile, threw, file) ==
    [ log EXCEPT ![Len(log)] = [ @ EXCEPT !.returned = value, !.wrote = wroteFile,
                                          !.failed = threw, !.after = file ] ]

\* ---- the steps of a command's action ----
\* the action's synchronous start: the level is checked (update), the
\* lockfile is found and the manifest is parsed (new PackageFileService),
\* npm list succeeds (new NpmService); the action reaches
\* await npmService.getList()
StartRun ==
    /\ rpc = "start"
    /\ command = "update" => updateLevel \in UpdateLevels
    /\ rpc' = "awaitGetList"
    /\ UNCHANGED <<manifestFile, packageJson, applied, updatedCount, writes, returned,
                   failure, exitCode, reports, callLog, updates>>
    /\ UNCHANGED <<inputVars, fetchVars, recordVars, exportVars>>

\* what the start can throw: the level check comes first
startFailures(cmd, level) ==
    IF cmd = "update" /\ level \notin UpdateLevels
    THEN {"invalidLevel"}
    ELSE {"lockfileAbsent", "manifestUnreadable", "manifestInvalidJson"}

\* something before the await throws: the catch clause reports it
\* (stopLoadingError, outputService.error) and the action returns
StartFails ==
    /\ rpc = "start"
    /\ rpc' = "failed"
    /\ failure' \in startFailures(command, updateLevel)
    /\ UNCHANGED <<manifestFile, packageJson, applied, updatedCount, writes, returned,
                   exitCode, reports, callLog, updates>>
    /\ UNCHANGED <<inputVars, fetchVars, recordVars, exportVars>>

\* the error messages of a failing npm list, as far as the code tells
\* them apart
NpmListErrors == {"ELSPROBLEMS", "other"}

\* a catch clause that treats a version mismatch like any other error
npmListCatchNeverExits(message) == "continue"

\* _setNpmListData, the catch clause: a version mismatch ends the
\* process, any other error leaves an empty dependency list
npmListCatch(message) ==
    IF message = "ELSPROBLEMS" THEN "exit" ELSE "continue"

\* new NpmService(packages, ctx): npm list fails
NpmListThrows ==
    /\ rpc = "start"
    /\ command = "update" => updateLevel \in UpdateLevels
    /\ \E message \in NpmListErrors :
          /\ IF npmListCatch(message) = "exit"
             THEN /\ rpc' = "exited"
                  /\ exitCode' = 1
             ELSE \* dependencies: {} -- no record has a lock entry
                  /\ \A k \in DOMAIN packageInfoList :
                        packageInfoList[k].versionInstalled = EmptyStr
                  /\ rpc' = "awaitGetList"
                  /\ UNCHANGED exitCode
          /\ failure' = IF message = "ELSPROBLEMS" THEN "versionMismatch"
                                                    ELSE "npmListFailed"
    /\ UNCHANGED <<manifestFile, packageJson, applied, updatedCount, writes, returned,
                   reports, callLog, updates>>
    /\ UNCHANGED <<inputVars, fetchVars, recordVars, exportVars>>

\* whether the event loop can run a signal handler: only while the action
\* is suspended at an await
signalDeliverable(at) == at \in {"awaitGetList", "awaitSave"}

\* process.on('SIGINT' | 'SIGTERM', () => process.exit(0))
Signal ==
    /\ signalDeliverable(rpc)
    /\ rpc' = "aborted"
    /\ exitCode' = 0
    /\ UNCHANGED <<manifestFile, packageJson, applied, updatedCount, writes, returned,
                   failure, reports, callLog, updates>>
    /\ UNCHANGED <<inputVars, fetchVars, recordVars, exportVars>>

\* getList() rejects: the catch clause reports it
GetListRejects ==
    /\ rpc = "awaitGetList"
    /\ rpc' = "failed"
    /\ failure' = "getListRejected"
    /\ UNCHANGED <<manifestFile, packageJson, applied, updatedCount, writes, returned,
                   exitCode, reports, callLog, updates>>
    /\ UNCHANGED <<inputVars, fetchVars, recordVars, exportVars>>

\* a command that goes on to the apply step whatever --dry-run says
afterDisplayIgnoresDryRun(dry) == "apply"

\* the update command after displayUpdates: return on --dry-run, else
\* call applyUpdates(updates)
afterDisplay(dry) == IF dry THEN "dryRunDone" ELSE "apply"

\* getList() resolves.  update: prepareUpdates, then return on an empty
\* plan or on --dry-run, else enter applyUpdates(updates).  export: the
\* summary and the export service are built and saveToFile is awaited
GetListResolves ==
    /\ rpc = "awaitGetList"
    /\ IF command = "update"
       THEN /\ updates' = prepareUpdates(packageInfoList, updateLevel)
            /\ rpc' = IF updates' = <<>> THEN "nothingToUpdate" ELSE afterDisplay(dryRun)
            /\ callLog' = IF rpc' = "apply" THEN callEntered(callLog, FALSE, manifestFile)
                          ELSE callLog
       ELSE /\ rpc' = "awaitSave"
            /\ UNCHANGED <<updates, callLog>>
    /\ UNCHANGED <<manifestFile, packageJson, applied, updatedCount, writes, returned,
                   failure, exitCode, reports>>
    /\ UNCHANGED <<inputVars, fetchVars, recordVars, exportVars>>

\* export: saveToFile resolves, the report is on disk
SaveReport ==
    /\ rpc = "awaitSave"
    /\ rpc' = "exportDone"
    /\ reports' = reports + 1
    /\ UNCHANGED <<manifestFile, packageJson, applied, updatedCount, writes, returned,
                   failure, exitCode, callLog, updates>>
    /\ UNCHANGED <<inputVars, fetchVars, recordVars, exportVars>>

\* export: building or saving the report throws, the catch clause
\* reports it
SaveFails ==
    /\ rpc = "awaitSave"
    /\ rpc' = "failed"
    /\ failure' = "exportFailed"
    /\ UNCHANGED <<manifestFile, packageJson, applied, updatedCount, writes, returned,
                   exitCode, reports, callLog, updates>>
    /\ UNCHANGED <<inputVars, fetchVars, recordVars, exportVars>>

\* ---- applyUpdates(updates, dryRun = false) ----
\* The manifest of the model has one dependency group, so the test
\* packageJson[dependencyType] && typeof ... === 'object' is true.
\* JSON.parse(fs.readFileSync(packageJsonPath)); a truncated file does not
\* parse
ReadManifest ==
    /\ rpc = "apply"
    /\ manifestFile # NoManifest
    /\ rpc' = "loop"
    /\ packageJson' = manifestFile
    /\ applied' = 0
    /\ updatedCount' = 0
    /\ UNCHANGED <<manifestFile, writes, returned, failure, exitCode, reports, callLog,
                   updates>>
    /\ UNCHANGED <<inputVars, fetchVars, recordVars, exportVars>>

\* reading or parsing throws; the catch clause returns 0
ReadFails ==
    /\ rpc = "apply"
    /\ rpc' = "done"
    /\ returned' = 0
    /\ callLog' = callReturned(callLog, 0, FALSE, TRUE, manifestFile)
    /\ UNCHANGED <<manifestFile, packageJson, applied, updatedCount, writes, failure,
                   exitCode, reports, updates>>
    /\ UNCHANGED <<inputVars, fetchVars, recordVars, exportVars>>

\* a comparison that takes every entry of the plan for a change
differsAlways(deps, update) == TRUE

\* deps[packageName] !== newVersion
differs(deps, update) == deps[update.packageName] # update.newVersion

\* one iteration of the loop over the plan
ApplyUpdate ==
    /\ rpc = "loop"
    /\ applied < Len(updates)
    /\ LET update == updates[applied + 1]
       IN  IF differs(packageJson, update)
           THEN /\ packageJson' = [packageJson EXCEPT ![update.packageName] = update.newVersion]
                /\ updatedCount' = updatedCount + 1
           ELSE UNCHANGED <<packageJson, updatedCount>>
    /\ applied' = applied + 1
    /\ UNCHANGED <<rpc, manifestFile, writes, returned, failure, exitCode, reports, callLog,
                   updates>>
    /\ UNCHANGED <<inputVars, fetchVars, recordVars, exportVars>>

\* a write statement placed inside the loop
writeDueInLoop(done, planned, count) == count > 0

\* the write statement follows the loop and is guarded by updatedCount > 0
writeDue(done, planned, count) == done = planned /\ count > 0

\* fs.writeFileSync(packageJsonPath, JSON.stringify(packageJson)), then
\* return updatedCount
WriteManifest ==
    /\ rpc = "loop"
    /\ writeDue(applied, Len(updates), updatedCount)
    /\ rpc' = "done"
    /\ writes' = writes + 1
    /\ manifestFile' = packageJson
    /\ returned' = updatedCount
    /\ callLog' = callReturned(callLog, updatedCount, TRUE, FALSE, manifestFile')
    /\ UNCHANGED <<packageJson, applied, updatedCount, failure, exitCode, reports, updates>>
    /\ UNCHANGED <<inputVars, fetchVars, recordVars, exportVars>>

\* fs.writeFileSync throws; the file is as it was or truncated, and the
\* catch clause returns 0
WriteFails ==
    /\ rpc = "loop"
    /\ writeDue(applied, Len(updates), updatedCount)
    /\ rpc' = "done"
    /\ writes' = writes + 1
    /\ manifestFile' \in {manifestFile, NoManifest}
    /\ returned' = 0
    /\ callLog' = callReturned(callLog, 0, TRUE, TRUE, manifestFile')
    /\ UNCHANGED <<packageJson, applied, updatedCount, failure, exitCode, reports, updates>>
    /\ UNCHANGED <<inputVars, fetchVars, recordVars, exportVars>>

\* nothing changed: return updatedCount without writing
ReturnUnchanged ==
    /\ rpc = "loop"
    /\ applied = Len(updates)
    /\ updatedCount = 0
    /\ rpc' = "done"
    /\ returned' = updatedCount
    /\ callLog' = callReturned(callLog, updatedCount, FALSE, FALSE, manifestFile)
    /\ UNCHANGED <<manifestFile, packageJson, applied, updatedCount, writes, failure,
                   exitCode, reports, updates>>
    /\ UNCHANGED <<inputVars, fetchVars, recordVars, exportVars>>

\* ---- the end of the process ----
\* where a command's action has returned
ActionReturned == {"nothingToUpdate", "dryRunDone", "done", "failed", "exportDone"}

\* the action has returned and nothing is left on the event loop: the
\* process ends with process.exitCode, which no statement sets
ProcessEnds ==
    /\ command \in {"update", "export"}
    /\ rpc \in ActionReturned
    /\ exitCode = NotExited
    /\ exitCode' = 0
    /\ UNCHANGED <<rpc, manifestFile, packageJson, applied, updatedCount, writes, returned,
                   failure, reports, callLog, updates>>
    /\ UNCHANGED <<inputVars, fetchVars, recordVars, exportVars>>

\* ---- UpdateService used directly ----
\* calls of applyUpdates on one service object and one plan
MaxCalls == 2

\* a service object is to be built from a record list and a level
InitCall ==
    /\ rpc = "new"
    /\ command = "none"
    /\ dryRun = FALSE
    /\ updateLevel \in UpdateLevels
    /\ InitManifest
    /\ NothingDone

\* new UpdateService(packageInfoList, updateLevel, ctx).prepareUpdates()
CallPrepareUpdates ==
    /\ rpc = "new"
    /\ updates' = prepareUpdates(packageInfoList, updateLevel)
    /\ rpc' = "call"
    /\ UNCHANGED <<manifestFile, packageJson, applied, updatedCount, writes, returned,
                   failure, exitCode, reports, callLog>>
    /\ UNCHANGED <<inputVars, fetchVars, recordVars, exportVars>>

\* applyUpdates(updates, dry): with dry it returns updates.length at once
CallApplyUpdates ==
    /\ command = "none"
    /\ rpc \in {"call", "done"}
    /\ Len(callLog) < MaxCalls
    /\ \E dry \in BOOLEAN :
          IF dry
          THEN /\ rpc' = "done"
               /\ returned' = Len(updates)
               /\ callLog' = callReturned(callEntered(callLog, TRUE, manifestFile),
                                          Len(updates), FALSE, FALSE, manifestFile)
          ELSE /\ rpc' = "apply"
               /\ returned' = NotReturned
               /\ callLog' = callEntered(callLog, FALSE, manifestFile)
    /\ UNCHANGED <<manifestFile, packageJson, applied, updatedCount, writes, failure,
                   exitCode, reports, updates>>
    /\ UNCHANGED <<inputVars, fetchVars, recordVars, exportVars>>

(***************************************************************************)
(* Part 5: the export report                                               *)
(* SummaryService (calculateSummaryByType, calculateTotals) and            *)
(* PackageFileService.getExportFilePath.                                   *)
(***************************************************************************)
\* ---- SummaryService ----
\* the counters of SummaryStats and SummaryTotals
SummaryFields == {"total", "fromNpmRegistry", "notFromNpmRegistry", "upToDate", "outdated",
                  "patch", "minor", "major", "deprecated"}

ZeroStats == [f \in SummaryFields |-> 0]

\* the summary field before the constructor's calculations
NoSummary == [byType |-> <<>>, totals |-> ZeroStats]

\* the loop body of calculateSummaryByType for one row of getInfo(): total,
\* the counter named by updateStatus if there is one, deprecated for a
\* deprecated installed version, and the registry counters
countRow(stats, row) ==
    LET fromNpm == isNpmRegistryUrl(row.registrySource)
        counted == [stats EXCEPT
                      !.total = @ + 1,
                      !.deprecated = IF row.installedDeprecated THEN @ + 1 ELSE @,
                      !.fromNpmRegistry = IF fromNpm THEN @ + 1 ELSE @,
                      !.notFromNpmRegistry =
                          IF ~fromNpm /\ row.registrySource # EmptyStr THEN @ + 1 ELSE @]
    IN  IF row.updateStatus # "undefined"
        THEN [counted EXCEPT ![row.updateStatus] = @ + 1]
        ELSE counted

\* summaryByType[row.dependencyType], created at zero when missing, counts
\* the row
withRow(byType, row) ==
    [u \in DOMAIN byType \cup {row.dependencyType} |->
        IF u # row.dependencyType THEN byType[u]
        ELSE countRow(IF u \in DOMAIN byType THEN byType[u] ELSE ZeroStats, row)]

RECURSIVE summaryByTypeFrom(_, _, _)
summaryByTypeFrom(rows, n, byType) ==
    IF n > Len(rows) THEN byType
    ELSE summaryByTypeFrom(rows, n + 1, withRow(byType, rows[n]))

\* an outdated count that forgets the patch tier
outdatedOfMajorMinor(stats) == stats.major + stats.minor

\* stats.outdated = stats.major + stats.minor + stats.patch
outdatedOf(stats) == stats.major + stats.minor + stats.patch

\* calculateSummaryByType(): the loop over this.list, then the outdated
\* count of every type
calculateSummaryByType(rows) ==
    [t \in DOMAIN summaryByTypeFrom(rows, 1, <<>>) |->
        [summaryByTypeFrom(rows, 1, <<>>)[t] EXCEPT
            !.outdated = outdatedOf(summaryByTypeFrom(rows, 1, <<>>)[t])]]

RECURSIVE totalsOver(_, _, _)
totalsOver(byType, types, totals) ==
    IF types = {} THEN totals
    ELSE LET t == CHOOSE u \in types : TRUE
         IN  totalsOver(byType, types \ {t},
                        [f \in SummaryFields |-> totals[f] + byType[t][f]])

\* calculateTotals(): every counter summed over Object.values(byType)
calculateTotals(byType) == totalsOver(byType, DOMAIN byType, ZeroStats)

\* ---- inputs of SummaryService ----
MaxRows == 2         \* at most this many records in the list

\* the fields of a getInfo() row the summary reads: two dependency types,
\* every updateStatus, and installed versions deprecated or not, from the
\* npm registry, from elsewhere or without a source
SummaryRows ==
    { [ dependencyType |-> t, updateStatus |-> u, installedDeprecated |-> x[1],
        registrySource |-> x[2] ] :
        t \in {"dependencies", "devDependencies"},
        u \in {"upToDate", "patch", "minor", "major", "undefined"},
        x \in { <<FALSE, <<"h", "t", "t", "p", "s", ":", "/", "/", "r", "e", "g", "i", "s", "t", "r", "y", ".", "n", "p", "m", "j", "s", ".", "o", "r", "g", "/", "l", "o", "d", "a", "s", "h">>>>,
                <<TRUE, <<"h", "t", "t", "p", "s", ":", "/", "/", "r", "e", "g", "i", "s", "t", "r", "y", ".", "n", "p", "m", "j", "s", ".", "o", "r", "g", "/", "l", "o", "d", "a", "s", "h">>>>,
                <<FALSE, <<"s", "s", "h", ":", "/", "/", "g", "i", "t", "@", "g", "i", "t", "h", "u", "b", ".", "c", "o", "m", "/", "u", "s", "e", "r", "/", "r", "e", "p", "o", ".", "g", "i", "t">>>>,
                <<FALSE, EmptyStr>> } }

InitSummary ==
    /\ spc = "new"
    /\ summaryList \in UNION { [1..n -> SummaryRows] : n \in 0..MaxRows }
    /\ summary = NoSummary

\* ---- sanitizeFileName and getExportFilePath ----
\* name.toLowerCase().replace(/@/g, '').replace(/[^a-z0-9]/g, '-')
sanitizeFileName(name) ==
    LET noAt == SelectSeq(toLowerCase(name), LAMBDA c : c # "@")
    IN  IF noAt = EmptyStr THEN EmptyStr
        ELSE [k \in 1..Len(noAt) |->
                 IF IsDigit(noAt[k]) \/ (\E j \in 1..26 : LowerChars[j] = noAt[k])
                 THEN noAt[k] ELSE "-"]

\* version.replace(/\./g, '-')
replaceDots(version) ==
    IF version = EmptyStr THEN EmptyStr
    ELSE [k \in 1..Len(version) |-> IF version[k] = "." THEN "-" ELSE version[k]]

\* getName(): packageJson.name ?? ''
getName(pj) == pj.name

\* getVersion(): packageJson.version || '0.0.0'
getVersion(pj) == Or(pj.version, <<"0", ".", "0", ".", "0">>)

\* `${packageName}-v${version}-dependencies`
baseFileName(pj) ==
    sanitizeFileName(Or(getName(pj), <<"p", "a", "c", "k", "a", "g", "e">>)) \o <<"-", "v">>
        \o replaceDots(getVersion(pj)) \o <<"-", "d", "e", "p", "e", "n", "d", "e", "n", "c", "i", "e", "s">>

\* The source of fileRegex holds baseFileName unescaped.  Of the characters
\* a base name is made of here, '+' is the only one the regular expression
\* does not take literally: it repeats the character before it one or more
\* times.  The atoms of the base name's part of the pattern:
regexAtoms(source) ==
    LET literal == { k \in 1..Len(source) : source[k] # "+" }
        order == Ascending(literal)
    IN  [ n \in 1..Len(order) |->
            [ ch |-> source[order[n]],
              plus |-> order[n] < Len(source) /\ source[order[n] + 1] = "+" ] ]

\* the positions of s after a match of atoms k.. that starts at position p
RECURSIVE matchEnds(_, _, _, _)
matchEnds(atoms, k, s, p) ==
    IF k > Len(atoms) THEN {p}
    ELSE IF ~atoms[k].plus
    THEN IF p <= Len(s) /\ s[p] = atoms[k].ch THEN matchEnds(atoms, k + 1, s, p + 1) ELSE {}
    ELSE UNION { matchEnds(atoms, k + 1, s, q) :
                   q \in { e \in (p + 1)..(Len(s) + 1) :
                             \A r \in p..(e - 1) : s[r] = atoms[k].ch } }

\* file.match(fileRegex)[1] for
\* ^${baseFileName}-(\d+)${fileExtension with its dots escaped}$ ; "" when
\* the file does not match
suffixOf(base, fileExtension, file) ==
    LET ends == { q \in matchEnds(regexAtoms(base), 1, file, 1) :
                    /\ q + 1 <= Len(file) - Len(fileExtension)
                    /\ file[q] = "-"
                    /\ \A r \in (q + 1)..(Len(file) - Len(fileExtension)) : IsDigit(file[r])
                    /\ SubSeq(file, Len(file) - Len(fileExtension) + 1, Len(file))
                          = fileExtension }
    IN  IF ends = {} THEN EmptyStr
        ELSE SubSeq(file, (CHOOSE q \in ends : TRUE) + 1, Len(file) - Len(fileExtension))

\* the loop over fs.readdirSync(outputDir): the highest parseInt(match[1], 10)
highestSuffix(files, base, fileExtension) ==
    LET found == { DecimalValue(suffixOf(base, fileExtension, f)) :
                     f \in { g \in files : suffixOf(base, fileExtension, g) # EmptyStr } }
    IN  IF found = {} THEN 0
        ELSE CHOOSE n \in found : \A o \in found : o <= n

\* getFallbackUniqueFilePath: base, base-1, base-2, ... until
\* fs.existsSync says no
RECURSIVE fallbackFrom(_, _, _, _, _)
fallbackFrom(files, base, fileExtension, counter, filePath) ==
    IF (filePath \o fileExtension) \notin files THEN filePath
    ELSE fallbackFrom(files, base, fileExtension, counter + 1,
                      base \o <<"-">> \o DecStr(counter))

getFallbackUniqueFilePath(files, base, fileExtension) ==
    fallbackFrom(files, base, fileExtension, 1, base)

\* getUniqueFilePath; paths are taken relative to outputDir
getUniqueFilePath(files, base, fileExtension, readdirThrows) ==
    IF readdirThrows THEN getFallbackUniqueFilePath(files, base, fileExtension)
    ELSE IF highestSuffix(files, base, fileExtension) = 0
            /\ (base \o fileExtension) \notin files
    THEN base
    ELSE base \o <<"-">> \o DecStr(highestSuffix(files, base, fileExtension) + 1)

\* getExportFilePath(fileExtension, forceOverwrite)
getExportFilePath(call) ==
    IF call.forceOverwrite THEN baseFileName(call.packageJson)
    ELSE getUniqueFilePath(call.files, baseFileName(call.packageJson), call.fileExtension,
                           call.readdirThrows)

\* ---- inputs of getExportFilePath ----
MaxSuffix == 2       \* the reports in the output directory have suffixes up to this

\* name and version of the manifest; "" for a missing field
ExportManifests ==
    { [name |-> n, version |-> v] :
        n \in { EmptyStr, <<"@", "s", "/", "P", "k", "g">> },
        v \in { EmptyStr, <<"1", ".", "0", ".", "0">>, <<"1", ".", "0", ".", "0", "+", "1">> } }

\* getFileExtension() of the two export services
FileExtensions == { <<".", "x", "l", "s", "x">>, <<".", "j", "s", "o", "n">> }

\* what earlier runs may have left in the output directory: the report
\* without suffix, reports with the suffixes 1..MaxSuffix, and a report of
\* the other format
ReportFiles(pj, fileExtension) ==
    { baseFileName(pj) \o fileExtension }
    \cup { baseFileName(pj) \o <<"-">> \o DecStr(n) \o fileExtension : n \in 1..MaxSuffix }
    \cup { baseFileName(pj) \o <<"-">> \o DecStr(MaxSuffix + 1) \o e :
             e \in FileExtensions \ {fileExtension} }

NoExportCall ==
    [ packageJson |-> [name |-> EmptyStr, version |-> EmptyStr], fileExtension |-> EmptyStr,
      forceOverwrite |-> FALSE, files |-> {}, readdirThrows |-> FALSE ]

ExportCalls ==
    UNION { { [ packageJson |-> pj, fileExtension |-> e, forceOverwrite |-> force,
                files |-> fs, readdirThrows |-> throws ] :
                force \in BOOLEAN, throws \in BOOLEAN, fs \in SUBSET ReportFiles(pj, e) } :
            pj \in ExportManifests, e \in FileExtensions }

InitExportPath ==
    /\ fpc = "call"
    /\ exportCall \in ExportCalls
    /\ exportPath = EmptyStr

\* part 5 at rest, while another part runs
IdleExport ==
    /\ spc = "idle"
    /\ summaryList = <<>>
    /\ summary = NoSummary
    /\ fpc = "idle"
    /\ exportCall = NoExportCall
    /\ exportPath = EmptyStr

otherVars == <<fetchVars, infoVars, runVars>>

\* ---- the steps ----
\* new SummaryService(...): this.calculateSummaryByType()
CalculateSummaryByType ==
    /\ spc = "new"
    /\ spc' = "byType"
    /\ summary' = [summary EXCEPT !.byType = calculateSummaryByType(summaryList)]
    /\ UNCHANGED <<summaryList, fpc, exportCall, exportPath, otherVars>>

\* new SummaryService(...): this.calculateTotals()
CalculateTotals ==
    /\ spc = "byType"
    /\ spc' = "totals"
    /\ summary' = [summary EXCEPT !.totals = calculateTotals(summary.byType)]
    /\ UNCHANGED <<summaryList, fpc, exportCall, exportPath, otherVars>>

\* packageFileService.getExportFilePath(fileExtension, ctx.forceOverwrite)
GetExportFilePath ==
    /\ fpc = "call"
    /\ fpc' = "returned"
    /\ exportPath' = getExportFilePath(exportCall)
    /\ UNCHANGED <<spc, summaryList, summary, exportCall, otherVars>>

(***************************************************************************)
(* Specifications                                                          *)
(***************************************************************************)
Init == InitFetch /\ IdleInfo /\ IdleExport

Next ==
    \/ CallProcessInChunks
    \/ GetList
    \/ \E k \in Indexes : CallbackFulfils(k)
    \/ \E k \in Indexes : CallbackRejects(k)

Spec == Init /\ [][Next]_vars

InitPackageInfo == IdleFetch /\ InitInfo /\ IdleExport

NextPackageInfo == Construct

SpecInfo == InitPackageInfo /\ [][NextPackageInfo]_vars

InitPlan == IdleFetch /\ InitPlanInputs /\ IdleExport

NextPlan == Construct \/ PrepareUpdates

SpecPlan == InitPlan /\ [][NextPlan]_vars

InitUpdate == IdleFetch /\ IdleRecord /\ InitRun /\ IdleExport

NextUpdate ==
    \/ StartRun
    \/ StartFails
    \/ NpmListThrows
    \/ Signal
    \/ GetListRejects
    \/ GetListResolves
    \/ SaveReport
    \/ SaveFails
    \/ ReadManifest
    \/ ReadFails
    \/ ApplyUpdate
    \/ WriteManifest
    \/ WriteFails
    \/ ReturnUnchanged
    \/ ProcessEnds

SpecUpdate == InitUpdate /\ [][NextUpdate]_vars

InitApply == IdleFetch /\ IdleRecord /\ (InitRun \/ InitCall) /\ IdleExport

NextApply == NextUpdate \/ CallPrepareUpdates \/ CallApplyUpdates

SpecApply == InitApply /\ [][NextApply]_vars

InitSummaryService == IdleFetch /\ IdleInfo /\ InitSummary /\ fpc = "idle"
                         /\ exportCall = NoExportCall /\ exportPath = EmptyStr

NextSummary == CalculateSummaryByType \/ CalculateTotals

SpecSummary == InitSummaryService /\ [][NextSummary]_vars

InitExportFilePath == IdleFetch /\ IdleInfo /\ InitExportPath /\ spc = "idle"
                         /\ summaryList = <<>> /\ summary = NoSummary

NextExportPath == GetExportFilePath

SpecExportPath == InitExportFilePath /\ [][NextExportPath]_vars

(***************************************************************************)
(* Claims about the concurrent registry fetcher (specification Spec)       *)
(***************************************************************************)
Count(sq, x) == Cardinality({ n \in DOMAIN sq : sq[n] = x })

\* C1: processInChunks never has more than `limit` callback invocations in
\* flight (started, not yet settled), whatever the input length and the order
\* in which the callbacks complete; NpmService calls it with limit 5
C1_BoundedInFlight ==
    /\ Cardinality(InFlight) <= limit
    /\ caller = "NpmService" => Cardinality(InFlight) <= 5

\* a full window of registry fetches is in flight and more items are waiting
C1_Witness ==
    /\ caller = "NpmService"
    /\ Len(data) > limit
    /\ Cardinality(InFlight) = limit

\* C2: when processInChunks resolves, results has the length of data and
\* results[i] is the value callback(data[i], i) produced, whatever the order
\* of completion; an empty input gives [] and the callback is never invoked
C2_ResultsInInputOrder ==
    pc = "returned" =>
        /\ DOMAIN results = Indexes
        /\ caller = "direct" =>
               \A k \in Indexes : results[k] = [value |-> data[k + 1], index |-> k]
        /\ caller = "NpmService" =>
               /\ Len(list) = Len(data)
               /\ \A k \in Indexes :
                      list[k + 1] = [package |-> data[k + 1],
                                     npmViewData |-> [npmViewOf |-> data[k + 1].packageName]]
        /\ Len(data) = 0 => results = <<>> /\ started = <<>>

\* a call over several chunks has resolved although callbacks completed out
\* of input order
C2_Witness ==
    /\ pc = "returned"
    /\ caller = "direct"
    /\ Len(data) > limit
    /\ limit > 1
    /\ outOfOrder

\* C3: a failed registry fetch for one package does not abort the others:
\* getList still completes, with one record per declaration
C3_FetchFailureIsolated ==
    (caller = "NpmService" /\ \E k \in Indexes : st[k] = "rejected") =>
        /\ getList # "rejected"
        /\ getList = "resolved" => Len(list) = Len(data)

\* C4: one registry metadata fetch per distinct package name, also when the
\* name is declared in more than one dependency-type group
C4_OneFetchPerName ==
    caller = "NpmService" =>
        /\ \A name \in PackageNames : Count(fetches, name) <= 1
        /\ getList = "resolved" =>
               \A k \in Indexes : Count(fetches, data[k + 1].packageName) = 1

\* C26: processInChunks issues work chunk by chunk: the callbacks are
\* started in input order, a whole chunk of `limit` items at a time (5 when
\* no limit argument is given), and no callback of a later chunk is started
\* before every callback of the chunks before it has settled.
C26_ChunksInSequence ==
    /\ \A n \in DOMAIN started : started[n] = n - 1
    /\ \A n, o \in DOMAIN started :
          (started[n] \div limit) < (started[o] \div limit) =>
              st[started[n]] \in {"fulfilled", "rejected"}
    /\ pc = "await" =>
          Len(started) = (IF i + limit < Len(data) THEN i + limit ELSE Len(data))
    /\ (pc = "await" /\ limit = DefaultLimit) =>
          Len(started) = (IF i + 5 < Len(data) THEN i + 5 ELSE Len(data))

\* a direct call without a limit argument is in its second chunk: five
\* callbacks have settled and the sixth was started after them
C26_Witness ==
    /\ caller = "direct"
    /\ limit = DefaultLimit
    /\ pc = "await"
    /\ i = 5
    /\ started = <<0, 1, 2, 3, 4, 5>>
    /\ st[5] = "inflight"
    /\ outOfOrder

(***************************************************************************)
(* Claims about PackageInfoService (specification SpecInfo)                *)
(* The claims are stated on version triples, independently of the          *)
(* split('.').map(Number) parsing of the code.                             *)
(***************************************************************************)
KnownTriples == Triples \cup { <<2, 1, 0>>, <<1, 3, 1>> }

\* v is three numeric components
IsNumeric3(v) == \E t \in KnownTriples : v = Ver(t[1], t[2], t[3])

TripleOf(v) == CHOOSE t \in KnownTriples : v = Ver(t[1], t[2], t[3])

\* numeric order on (major, minor, patch)
TripleLess(s, t) ==
    \/ s[1] < t[1]
    \/ s[1] = t[1] /\ s[2] < t[2]
    \/ s[1] = t[1] /\ s[2] = t[2] /\ s[3] < t[3]

HasDash(v) == \E n \in DOMAIN v : v[n] = "-"

\* the version keys of the registry payload, none when there is no payload
VersionKeys ==
    IF npmRegistryData.present
    THEN { npmRegistryData.versions[n] : n \in DOMAIN npmRegistryData.versions }
    ELSE {}

ProductionKeys == { v \in VersionKeys : ~HasDash(v) }

\* v is the greatest element of the non-empty set S, "undefined" for an empty S
IsMaxOf(v, S) ==
    IF S = {} THEN v = EmptyStr
    ELSE v \in S /\ \A w \in S : ~TripleLess(TripleOf(v), TripleOf(w))

\* C5: latest is the maximum, in numeric (major, minor, patch) order, of the
\* version strings without '-'; a version with '-' is never selected as
\* latest, lastMinor or lastPatch
C5_LatestIsMaxProduction ==
    phase = "built" =>
        /\ IsMaxOf(versionLast, ProductionKeys)
        /\ ~HasDash(versionLast)
        /\ ~HasDash(versionLastMinor)
        /\ ~HasDash(versionLastPatch)

\* latest is 1.10.0 although 1.3.0 and a prerelease of 2.1.0 are listed
C5_Witness ==
    /\ phase = "built"
    /\ versionLast = Ver(1, 10, 0)
    /\ Ver(1, 3, 0) \in VersionKeys
    /\ \E v \in VersionKeys : HasDash(v)

\* C6: for an installed a.b.c, lastMinor is the maximum production version
\* with major = a and minor > b, and is undefined exactly when there is none
C6_LastMinor ==
    (phase = "built" /\ IsNumeric3(versionInstalled)) =>
        LET inst == TripleOf(versionInstalled)
        IN  IsMaxOf(versionLastMinor,
                    { v \in ProductionKeys :
                        TripleOf(v)[1] = inst[1] /\ TripleOf(v)[2] > inst[2] })

\* installed 1.2.3 with {1.2.3, 1.2.4, 1.3.0, 2.0.0} gives lastMinor 1.3.0
C6_Witness ==
    /\ phase = "built"
    /\ versionInstalled = Ver(1, 2, 3)
    /\ VersionKeys = { Ver(1, 2, 3), Ver(1, 2, 4), Ver(1, 3, 0), Ver(2, 0, 0) }
    /\ versionLastMinor = Ver(1, 3, 0)

\* C7: for an installed a.b.c, lastPatch is the maximum production version
\* with major = a, minor = b and patch > c, and is undefined exactly when
\* installed is already the highest patch of its major.minor line
C7_LastPatch ==
    (phase = "built" /\ IsNumeric3(versionInstalled)) =>
        LET inst == TripleOf(versionInstalled)
        IN  IsMaxOf(versionLastPatch,
                    { v \in ProductionKeys :
                        /\ TripleOf(v)[1] = inst[1]
                        /\ TripleOf(v)[2] = inst[2]
                        /\ TripleOf(v)[3] > inst[3] })

\* installed 1.2.3 with 1.2.4 and 1.2.10 listed gives lastPatch 1.2.10
C7_Witness ==
    /\ phase = "built"
    /\ versionInstalled = Ver(1, 2, 3)
    /\ { Ver(1, 2, 4), Ver(1, 2, 10), Ver(1, 3, 0) } \subseteq VersionKeys
    /\ versionLastPatch = Ver(1, 2, 10)

\* C8: an installed version that is not three numeric components gets none
\* of lastPatch, lastMinor and latest
C8_UnparseableInstalledSkipsAll ==
    (phase = "built" /\ npmListDepItem.present /\ ~IsNumeric3(versionInstalled)) =>
        /\ versionLastPatch = EmptyStr
        /\ versionLastMinor = EmptyStr
        /\ versionLast = EmptyStr

\* the tier for two version triples
TierOf(inst, latest) ==
    IF inst = latest THEN "upToDate"
    ELSE IF inst[1] = latest[1] /\ inst[2] = latest[2] THEN "patch"
    ELSE IF inst[1] = latest[1] THEN "minor"
    ELSE "major"

\* C9: with installed and latest both three numeric components, updateStatus
\* is upToDate iff all three are equal, patch iff major and minor are equal
\* and patch differs, minor iff major is equal and minor differs, else major
C9_UpdateStatusTier ==
    (phase = "built" /\ IsNumeric3(versionInstalled) /\ IsNumeric3(versionLast)) =>
        updateStatus = TierOf(TripleOf(versionInstalled), TripleOf(versionLast))

\* installed 1.2.3 with latest 1.10.0 is classified minor
C9_Witness ==
    /\ phase = "built"
    /\ versionInstalled = Ver(1, 2, 3)
    /\ versionLast = Ver(1, 10, 0)
    /\ updateStatus = "minor"

\* C10: updateStatus is one of the four tiers when installed and latest are
\* both present and numeric, and undefined when either is missing or
\* non-numeric
C10_StatusOnlyWhenNumeric ==
    phase = "built" =>
        (updateStatus \in {"upToDate", "patch", "minor", "major"}
            <=> (IsNumeric3(versionInstalled) /\ IsNumeric3(versionLast)))

(***************************************************************************)
(* Claims about resolved locations and deprecation (specification SpecPlan)*)
(***************************************************************************)
VersionInfos == {"installed", "lastPatch", "lastMinor", "last"}

\* C11: when the registry data's package-level deprecated field is truthy,
\* every version info of the record (installed, lastPatch, lastMinor,
\* latest) reports deprecated = true, whatever the version's own entry says.
C11_PackageDeprecatedMarksAll ==
    (phase # "input" /\ npmRegistryData.present /\ npmRegistryData.deprecated)
        => \A f \in VersionInfos : deprecated[f] \in {"absent", "true"}

\* registry tarball locations with the '<base>/<packageName>' they belong to
TarballLocations ==
    { [ resolved |-> <<"h", "t", "t", "p", "s", ":", "/", "/", "r", "e", "g", "i", "s", "t", "r", "y", ".", "n", "p", "m", "j", "s", ".", "o", "r", "g", "/", "l", "o", "d", "a", "s", "h", "/", "-", "/", "l", "o", "d", "a", "s", "h", "-", "1", ".", "2", ".", "3", ".", "t", "g", "z">>,
        source |-> <<"h", "t", "t", "p", "s", ":", "/", "/", "r", "e", "g", "i", "s", "t", "r", "y", ".", "n", "p", "m", "j", "s", ".", "o", "r", "g", "/", "l", "o", "d", "a", "s", "h">> ],
      [ resolved |-> <<"h", "t", "t", "p", "s", ":", "/", "/", "r", "e", "g", "i", "s", "t", "r", "y", ".", "n", "p", "m", "j", "s", ".", "o", "r", "g", "/", "@", "s", "c", "o", "p", "e", "/", "p", "k", "g", "/", "-", "/", "p", "k", "g", "-", "1", ".", "2", ".", "3", ".", "t", "g", "z">>,
        source |-> <<"h", "t", "t", "p", "s", ":", "/", "/", "r", "e", "g", "i", "s", "t", "r", "y", ".", "n", "p", "m", "j", "s", ".", "o", "r", "g", "/", "@", "s", "c", "o", "p", "e", "/", "p", "k", "g">> ],
      [ resolved |-> <<"h", "t", "t", "p", "s", ":", "/", "/", "r", "e", "g", "i", "s", "t", "r", "y", ".", "e", "x", "a", "m", "p", "l", "e", "/", "l", "o", "d", "a", "s", "h", "/", "-", "/", "l", "o", "d", "a", "s", "h", "-", "4", ".", "1", "7", ".", "2", "1", ".", "t", "g", "z">>,
        source |-> <<"h", "t", "t", "p", "s", ":", "/", "/", "r", "e", "g", "i", "s", "t", "r", "y", ".", "e", "x", "a", "m", "p", "l", "e", "/", "l", "o", "d", "a", "s", "h">> ],
      [ resolved |-> <<"h", "t", "t", "p", "s", ":", "/", "/", "r", "e", "g", "i", "s", "t", "r", "y", ".", "n", "p", "m", "j", "s", ".", "c", "o", "m", "/", "l", "o", "d", "a", "s", "h", "/", "-", "/", "l", "o", "d", "a", "s", "h", "-", "1", ".", "2", ".", "3", ".", "t", "g", "z">>,
        source |-> <<"h", "t", "t", "p", "s", ":", "/", "/", "r", "e", "g", "i", "s", "t", "r", "y", ".", "n", "p", "m", "j", "s", ".", "c", "o", "m", "/", "l", "o", "d", "a", "s", "h">> ] }

\* C12: source classification strips the '/-/<tarball>' suffix of a registry
\* tarball URL and keeps '<base>/<packageName>'
\* (https://registry.example/lodash/-/lodash-4.17.21.tgz gives
\* https://registry.example/lodash), it leaves an already-normalized
\* registry source unchanged, and classifying its result again yields the
\* same result.
C12_TarballSuffixStripped ==
    (phase # "input" /\ npmListDepItem.present) =>
        /\ \A t \in TarballLocations :
              /\ npmListDepItem.resolved = t.resolved => registrySource = t.source
              /\ npmListDepItem.resolved = t.source => registrySource = t.source
        /\ (\E t \in TarballLocations : npmListDepItem.resolved \in {t.resolved, t.source})
              => setRegistrySource([npmListDepItem EXCEPT !.resolved = registrySource]).value
                     = registrySource

C12_Witness ==
    /\ phase = "built"
    /\ npmListDepItem.present
    /\ npmListDepItem.resolved = <<"h", "t", "t", "p", "s", ":", "/", "/", "r", "e", "g", "i", "s", "t", "r", "y", ".", "e", "x", "a", "m", "p", "l", "e", "/", "l", "o", "d", "a", "s", "h", "/", "-", "/", "l", "o", "d", "a", "s", "h", "-", "4", ".", "1", "7", ".", "2", "1", ".", "t", "g", "z">>
    /\ registrySource = <<"h", "t", "t", "p", "s", ":", "/", "/", "r", "e", "g", "i", "s", "t", "r", "y", ".", "e", "x", "a", "m", "p", "l", "e", "/", "l", "o", "d", "a", "s", "h">>

\* alias locations 'npm:<target>@<version>' with their <target>
AliasLocations ==
    { [ resolved |-> <<"n", "p", "m", ":", "l", "o", "d", "a", "s", "h", "@", "1", ".", "2", ".", "3">>, target |-> <<"l", "o", "d", "a", "s", "h">> ],
      [ resolved |-> <<"n", "p", "m", ":", "@", "s", "c", "o", "p", "e", "/", "p", "k", "g", "@", "1", ".", "0", ".", "0">>, target |-> <<"@", "s", "c", "o", "p", "e", "/", "p", "k", "g">> ] }

\* C13: for every resolved location 'npm:<target>[@version]', scoped targets
\* included, registrySource is '<registry-base>/<target>': the full target
\* with only the trailing '@version' removed.
C13_AliasKeepsFullTarget ==
    (phase # "input" /\ npmListDepItem.present) =>
        \A a \in AliasLocations :
            npmListDepItem.resolved = a.resolved
                => registrySource = <<"h", "t", "t", "p", "s", ":", "/", "/", "r", "e", "g", "i", "s", "t", "r", "y", ".", "n", "p", "m", "j", "s", ".", "o", "r", "g", "/">> \o a.target

\* http(s) locations that new URL rejects
MalformedUrls ==
    { <<"h", "t", "t", "p", "s", ":", "/", "/">>,
      <<"h", "t", "t", "p", ":", "/", "/", "e", "x", "a", " ", "m", "p", "l", "e", ".", "t", "e", "s", "t", "/", "p", "k", "g", "/", "-", "/", "p", "k", "g", "-", "1", ".", "2", ".", "3", ".", "t", "g", "z">> }

\* C14: building a record never throws because of the resolved location: the
\* constructor finishes for every location, a location whose URL parsing
\* fails is kept unchanged as the registrySource, and an absent location
\* gives an undefined registrySource.
C14_MalformedLocationFallsBack ==
    phase # "input" =>
        /\ registryError # "uncaught"
        /\ registryError = "caught" => registrySource = npmListDepItem.resolved
        /\ (npmListDepItem.present /\ npmListDepItem.resolved \in MalformedUrls)
              => registrySource = npmListDepItem.resolved
        /\ (~npmListDepItem.present \/ npmListDepItem.resolved = EmptyStr)
              => registrySource = EmptyStr

C14_Witness ==
    /\ phase = "built"
    /\ npmListDepItem.present
    /\ npmListDepItem.resolved = <<"h", "t", "t", "p", "s", ":", "/", "/">>
    /\ registryError = "caught"
    /\ registrySource = <<"h", "t", "t", "p", "s", ":", "/", "/">>

(***************************************************************************)
(* Claims about the update planner (specification SpecPlan)                *)
(***************************************************************************)
\* C15: a record is in the plan of prepareUpdates only if its updateStatus
\* is compatible with the level: never when upToDate; for level minor only
\* when minor or patch; for level patch only when patch.
C15_StatusCompatibleWithLevel ==
    (phase = "planned" /\ updates # <<>>) =>
        /\ updateStatus # "upToDate"
        /\ updateLevel = "minor" => updateStatus \in {"minor", "patch"}
        /\ updateLevel = "patch" => updateStatus = "patch"

\* a URL of the package registry
IsRegistryUrl(u) ==
    \/ startsWith(u, <<"h", "t", "t", "p", "s", ":", "/", "/", "r", "e", "g", "i", "s", "t", "r", "y", ".", "n", "p", "m", "j", "s", ".", "o", "r", "g", "/">>)
    \/ startsWith(u, <<"h", "t", "t", "p", ":", "/", "/", "r", "e", "g", "i", "s", "t", "r", "y", ".", "n", "p", "m", "j", "s", ".", "o", "r", "g", "/">>)

\* resolved locations that are git URLs, file: paths or other non-registry
\* URLs
NonRegistryLocations ==
    { <<"g", "i", "t", "+", "s", "s", "h", ":", "/", "/", "g", "i", "t", "@", "g", "i", "t", "h", "u", "b", ".", "c", "o", "m", "/", "u", "s", "e", "r", "/", "r", "e", "p", "o", ".", "g", "i", "t", "#", "a", "b", "c", "1", "2", "3">>,
      <<"g", "i", "t", "+", "h", "t", "t", "p", "s", ":", "/", "/", "g", "i", "t", "h", "u", "b", ".", "c", "o", "m", "/", "u", "s", "e", "r", "/", "r", "e", "p", "o", ".", "g", "i", "t", "#", "a", "b", "c", "1", "2", "3">>,
      <<"h", "t", "t", "p", "s", ":", "/", "/", "g", "i", "t", "h", "u", "b", ".", "c", "o", "m", "/", "u", "s", "e", "r", "/", "r", "e", "p", "o", "/", "t", "a", "r", "b", "a", "l", "l", "/", "v", "1", "#", "a", "b", "c", "1", "2", "3">>,
      <<"f", "i", "l", "e", ":", ".", ".", "/", "l", "o", "c", "a", "l">>,
      <<"h", "t", "t", "p", "s", ":", "/", "/", "r", "e", "g", "i", "s", "t", "r", "y", ".", "e", "x", "a", "m", "p", "l", "e", "/", "l", "o", "d", "a", "s", "h", "/", "-", "/", "l", "o", "d", "a", "s", "h", "-", "4", ".", "1", "7", ".", "2", "1", ".", "t", "g", "z">>,
      <<"h", "t", "t", "p", "s", ":", "/", "/", "r", "e", "g", "i", "s", "t", "r", "y", ".", "e", "x", "a", "m", "p", "l", "e", "/", "l", "o", "d", "a", "s", "h">>,
      <<"h", "t", "t", "p", "s", ":", "/", "/", "r", "e", "g", "i", "s", "t", "r", "y", ".", "n", "p", "m", "j", "s", ".", "c", "o", "m", "/", "l", "o", "d", "a", "s", "h", "/", "-", "/", "l", "o", "d", "a", "s", "h", "-", "1", ".", "2", ".", "3", ".", "t", "g", "z">>,
      <<"h", "t", "t", "p", "s", ":", "/", "/">>,
      <<"h", "t", "t", "p", ":", "/", "/", "e", "x", "a", " ", "m", "p", "l", "e", ".", "t", "e", "s", "t", "/", "p", "k", "g", "/", "-", "/", "p", "k", "g", "-", "1", ".", "2", ".", "3", ".", "t", "g", "z">> }

\* C16: every plan entry belongs to a record with an installed version whose
\* registrySource is a package-registry URL; a record whose source is a git
\* URL, a file: path, another non-registry URL, or absent is never in the
\* plan, whatever the level.
C16_PlanOnlyFromRegistry ==
    phase = "planned" =>
        /\ updates # <<>> => (versionInstalled # EmptyStr /\ IsRegistryUrl(registrySource))
        /\ (\/ ~npmListDepItem.present
            \/ npmListDepItem.resolved = EmptyStr
            \/ npmListDepItem.resolved \in NonRegistryLocations) => updates = <<>>

C16_Witness ==
    /\ phase = "planned"
    /\ Len(updates) = 1
    /\ versionInstalled = Ver(1, 2, 3)
    /\ npmListDepItem.resolved = <<"h", "t", "t", "p", "s", ":", "/", "/", "r", "e", "g", "i", "s", "t", "r", "y", ".", "n", "p", "m", "j", "s", ".", "o", "r", "g", "/", "l", "o", "d", "a", "s", "h", "/", "-", "/", "l", "o", "d", "a", "s", "h", "-", "1", ".", "2", ".", "3", ".", "t", "g", "z">>
    /\ registrySource = <<"h", "t", "t", "p", "s", ":", "/", "/", "r", "e", "g", "i", "s", "t", "r", "y", ".", "n", "p", "m", "j", "s", ".", "o", "r", "g", "/", "l", "o", "d", "a", "s", "h">>

\* the package of the record is deprecated: the payload as a whole, or the
\* installed version
PackageDeprecated ==
    /\ npmRegistryData.present
    /\ npmRegistryData.deprecated \/ versionInstalled \in npmRegistryData.deprecatedKeys

\* C17: a deprecated package is skipped by the planner unless the target
\* version chosen for the level is not deprecated: no plan entry of a
\* deprecated package has a target version that is itself marked deprecated.
C17_NoDeprecatedTargetForDeprecatedPackage ==
    (phase = "planned" /\ updates # <<>> /\ PackageDeprecated) =>
        /\ ~npmRegistryData.deprecated
        /\ updates[1].targetVersion \notin npmRegistryData.deprecatedKeys

\* the first present version of a fallback chain, "" if none is present
RECURSIVE FirstPresent(_)
FirstPresent(chain) ==
    IF chain = <<>> THEN EmptyStr
    ELSE IF Head(chain) # EmptyStr THEN Head(chain)
    ELSE FirstPresent(Tail(chain))

\* the target the level asks for, read off the serialized record
ExpectedTarget ==
    IF updateLevel = "latest"
    THEN FirstPresent(<<getInfo(thisRecord).versionLast, versionLastMinor, versionLastPatch>>)
    ELSE IF updateLevel = "minor"
    THEN FirstPresent(<<versionLastMinor, versionLastPatch>>)
    ELSE versionLastPatch

\* C18: the target version of a plan entry is chosen by level: latest takes
\* latest.version and falls back to lastMinor.version, then
\* lastPatch.version, when latest is absent from the record; minor takes
\* lastMinor.version and falls back to lastPatch.version; patch takes
\* lastPatch.version only; a record without a target for the level gives no
\* plan entry.
C18_TargetByLevel ==
    phase = "planned" =>
        /\ updates # <<>> => (Len(updates) = 1 /\ updates[1].targetVersion = ExpectedTarget)
        /\ ExpectedTarget = EmptyStr => updates = <<>>
        /\ (ExpectedTarget # EmptyStr /\ versionInstalled # EmptyStr
                /\ IsRegistryUrl(registrySource)) => updates # <<>>

C18_Witness ==
    /\ phase = "planned"
    /\ updateLevel = "latest"
    /\ versionLast # EmptyStr
    /\ getInfo(thisRecord).versionLast = EmptyStr
    /\ versionLastMinor # EmptyStr
    /\ Len(updates) = 1
    /\ updates[1].targetVersion = versionLastMinor

\* a versionRequired that is not a semver range: a URL, a git reference, a
\* file: path, an npm: alias, anything with a ':' or a '/'
IsNonSemver(required) == \E k \in 1..Len(required) : required[k] \in {":", "/"}

ExpectedPrefix(required) ==
    IF IsNonSemver(required) THEN EmptyStr
    ELSE IF startsWith(required, <<"^">>) THEN <<"^">>
    ELSE IF startsWith(required, <<"~">>) THEN <<"~">>
    ELSE EmptyStr

\* C19: the new version string of a plan entry is the range prefix of
\* versionRequired followed by the target version: '^' for a versionRequired
\* starting with '^', '~' for one starting with '~', none otherwise; a
\* non-semver versionRequired (URL, git, file:, npm:, or containing ':' or
\* '/') gets no prefix.
C19_NewVersionKeepsRangePrefix ==
    (phase = "planned" /\ updates # <<>>) =>
        updates[1].newVersion = ExpectedPrefix(versionRequired) \o updates[1].targetVersion

(***************************************************************************)
(* Further claims about the serialized record and the plan                 *)
(* (specification SpecPlan)                                                *)
(***************************************************************************)
\* C24: in the record getInfo() returns, latest (versionLast) is present
\* only if its version differs from both the installed and the lastMinor
\* version, and then it is the record's latest; it is never present when
\* it equals either of them.
C24_LatestOnlyWhenDistinct ==
    phase \in {"built", "planned"} =>
        /\ getInfo(thisRecord).versionLast # EmptyStr =>
              /\ getInfo(thisRecord).versionLast = versionLast
              /\ versionLast # versionInstalled
              /\ versionLast # versionLastMinor
        /\ (versionLast # EmptyStr /\ versionLast \in {versionInstalled, versionLastMinor}) =>
              getInfo(thisRecord).versionLast = EmptyStr

\* latest is omitted for a record whose latest is its lastMinor, and the
\* planner still finds a target
C24_Witness ==
    /\ phase = "planned"
    /\ versionLast # EmptyStr
    /\ versionLast = versionLastMinor
    /\ versionLast # versionInstalled
    /\ getInfo(thisRecord).versionLast = EmptyStr
    /\ updates # <<>>

\* C28: the planner never plans a downgrade: the target version of a plan
\* entry is strictly greater, in numeric (major, minor, patch) order, than
\* the installed version, also when the installed version is higher than
\* every production version the registry lists.
C28_NoDowngrade ==
    (phase = "planned" /\ updates # <<>>) =>
        TripleLess(TripleOf(versionInstalled), TripleOf(updates[1].targetVersion))

\* the installed version is below the highest production version
BelowHighestProduction ==
    /\ versionInstalled # EmptyStr
    /\ \E v \in ProductionKeys : TripleLess(TripleOf(versionInstalled), TripleOf(v))

\* C29: at level latest the target of a plan entry is the highest production
\* version of the package, although getInfo() leaves versionLast out when it
\* equals lastMinor or lastPatch; and a record with a registry source whose
\* installed version is below the highest production version always gives
\* a plan entry.
C29_LatestTargetsHighest ==
    (phase = "planned" /\ updateLevel = "latest") =>
        /\ updates # <<>> => IsMaxOf(updates[1].targetVersion, ProductionKeys)
        /\ (BelowHighestProduction /\ IsRegistryUrl(registrySource)) => updates # <<>>

\* the entry's target is the latest although the serialized record has no
\* versionLast
C29_Witness ==
    /\ phase = "planned"
    /\ updateLevel = "latest"
    /\ updates # <<>>
    /\ getInfo(thisRecord).versionLast = EmptyStr
    /\ versionLast = versionLastPatch
    /\ versionLastMinor = EmptyStr
    /\ updates[1].targetVersion = versionLast

(***************************************************************************)
(* Claims about the update run (specification SpecUpdate)                  *)
(***************************************************************************)
\* the manifest with every change of the plan made
FullyApplied(manifest, plan) ==
    [ n \in PackageNames |->
        IF \E k \in DOMAIN plan : plan[k].packageName = n
        THEN plan[CHOOSE k \in DOMAIN plan : plan[k].packageName = n].newVersion
        ELSE manifest[n] ]

\* C20: in an update run the manifest file is written at most once, in full,
\* and only after the whole plan is computed and every planned change is
\* made in the in-memory manifest; it is never written incrementally, so an
\* abort (SIGINT/SIGTERM) or a failure at an earlier point leaves the file
\* exactly as it was.
C20_ManifestWrittenOnceAfterPlan ==
    /\ writes <= 1
    /\ writes = 0 => manifestFile = manifestAtStart
    /\ rpc \in {"aborted", "failed"} => (writes = 0 /\ manifestFile = manifestAtStart)
    /\ writes = 1 =>
          /\ rpc = "done"
          /\ updates # <<>>
          /\ applied = Len(updates)
          /\ packageJson = FullyApplied(manifestAtStart, updates)
          /\ returned > 0 => manifestFile = packageJson

C20_Witness ==
    /\ rpc = "done"
    /\ writes = 1
    /\ Len(updates) = 2
    /\ returned = 2
    /\ manifestFile = packageJson
    /\ manifestFile # manifestAtStart

(***************************************************************************)
(* Claims about dry runs and applyUpdates (specification SpecApply)        *)
(***************************************************************************)
\* C21: with --dry-run the update command never enters the apply step: the
\* manifest file is neither read for modification nor written, the command
\* displays the plan and returns; and a call applyUpdates(updates, true)
\* returns updates.length and leaves the manifest file as it was.
C21_DryRunLeavesManifest ==
    /\ (command = "update" /\ dryRun) =>
          /\ callLog = <<>>
          /\ rpc \notin {"apply", "loop", "done"}
          /\ packageJson = NoManifest
          /\ writes = 0
          /\ manifestFile = manifestAtStart
    /\ \A k \in DOMAIN callLog :
          callLog[k].dryRun =>
              /\ callLog[k].returned = Len(updates)
              /\ callLog[k].after = callLog[k].before
              /\ ~callLog[k].wrote
              /\ ~callLog[k].failed

C21_Witness ==
    /\ command = "update"
    /\ dryRun
    /\ rpc = "dryRunDone"
    /\ Len(updates) = 2
    /\ exitCode = 0
    /\ manifestFile # FullyApplied(manifestFile, updates)

\* the plan entries whose range in the manifest is not the planned one
ChangedCount(manifest, plan) ==
    Cardinality({ k \in DOMAIN plan : manifest[plan[k].packageName] # plan[k].newVersion })

\* C30: a call of applyUpdates without dry-run returns the number of plan
\* entries whose manifest value it changed and writes the manifest iff that
\* number is greater than 0; the written manifest differs from the one it
\* read only in the entries the plan names; a call that follows an applied
\* call with the same plan returns 0 and writes nothing; a call in which the
\* read or the write fails returns 0.
C30_ApplyUpdatesCountsChanges ==
    \A k \in DOMAIN callLog :
        (~callLog[k].dryRun /\ callLog[k].returned # NotReturned) =>
            /\ callLog[k].failed => callLog[k].returned = 0
            /\ callLog[k].wrote => ChangedCount(callLog[k].before, updates) > 0
            /\ ~callLog[k].failed =>
                  /\ callLog[k].returned = ChangedCount(callLog[k].before, updates)
                  /\ callLog[k].wrote <=> callLog[k].returned > 0
                  /\ callLog[k].after = FullyApplied(callLog[k].before, updates)
            /\ \A j \in 1..(k - 1) :
                  (~callLog[j].dryRun /\ ~callLog[j].failed) =>
                      (callLog[k].returned = 0 /\ ~callLog[k].wrote)

C30_Witness ==
    /\ Len(callLog) = 2
    /\ Len(updates) = 1
    /\ ~callLog[1].dryRun /\ ~callLog[1].failed
    /\ callLog[1].returned = 1 /\ callLog[1].wrote
    /\ callLog[1].after # callLog[1].before
    /\ ~callLog[2].dryRun /\ ~callLog[2].failed
    /\ callLog[2].returned = 0
    /\ manifestFile = callLog[1].after

(***************************************************************************)
(* Claims about the end of a run (specification SpecUpdate)                *)
(***************************************************************************)
\* C22: when npm list reports a version mismatch between the manifest and
\* the lockfile, the run halts with a non-zero exit code before
\* getList() -- the registry fetch and the classification -- is called: the
\* mismatch is met while the action is still in its synchronous start, and
\* from then on the process has exited, no report is written and the
\* manifest is as it was.
C22_MismatchHalts ==
    /\ [](failure = "versionMismatch" =>
            /\ rpc = "exited"
            /\ exitCode \notin {NotExited, 0}
            /\ updates = <<>>
            /\ callLog = <<>>
            /\ reports = 0
            /\ writes = 0
            /\ manifestFile = manifestAtStart)
    /\ [][failure' = "versionMismatch" => rpc = "start"]_vars

C22_Witness ==
    /\ failure = "versionMismatch"
    /\ rpc = "exited"
    /\ exitCode = 1
    /\ command = "export"
    /\ \A k \in DOMAIN packageInfoList : packageInfoList[k].versionInstalled # EmptyStr

\* C23: every fatal failure of an export or update run -- whatever reaches
\* the command's catch clause (invalid level, lockfile absent, manifest
\* unreadable or not JSON, a rejected getList(), a failed export) or halts
\* the run -- ends the process with a non-zero exit code, and the failures of
\* the start come before any classification; the exit code is zero only
\* when the run met no such failure.
C23_FatalFailureExitsNonZero ==
    /\ (rpc \in {"failed", "exited"} /\ exitCode # NotExited) => exitCode # 0
    /\ (rpc = "failed" /\ failure \in startFailures(command, updateLevel)) =>
          (updates = <<>> /\ callLog = <<>> /\ reports = 0)
    /\ rpc = "nothingToUpdate" => exitCode \in {NotExited, 0}

(***************************************************************************)
(* Claims about the export report (specifications SpecSummary and          *)
(* SpecExportPath)                                                         *)
(***************************************************************************)
\* the records of summaryList of dependency type t
RowsOfType(t) == { n \in 1..Len(summaryList) : summaryList[n].dependencyType = t }

\* those of them whose updateStatus is u
RowsWithStatus(t, u) == { n \in RowsOfType(t) : summaryList[n].updateStatus = u }

\* field f added up over the dependency types of the summary
SumOverTypes(f) ==
    (IF "dependencies" \in DOMAIN summary.byType
     THEN summary.byType["dependencies"][f] ELSE 0)
    + (IF "devDependencies" \in DOMAIN summary.byType
       THEN summary.byType["devDependencies"][f] ELSE 0)

\* C25: for every list of records, once the summary is calculated, each
\* dependency type that has records has an entry whose total is the number
\* of its records, whose upToDate, patch, minor and major are the numbers of
\* its records with that updateStatus, and whose outdated is
\* major + minor + patch; every field of totals is the sum of the field over
\* the dependency types; a record without updateStatus adds to no tier, so
\* upToDate + outdated never exceeds total.
C25_SummaryCounts ==
    /\ spc \in {"byType", "totals"} =>
         /\ DOMAIN summary.byType = { summaryList[n].dependencyType : n \in 1..Len(summaryList) }
         /\ \A t \in DOMAIN summary.byType :
              /\ summary.byType[t].total = Cardinality(RowsOfType(t))
              /\ \A u \in {"upToDate", "patch", "minor", "major"} :
                   summary.byType[t][u] = Cardinality(RowsWithStatus(t, u))
              /\ summary.byType[t].outdated
                   = summary.byType[t].major + summary.byType[t].minor
                       + summary.byType[t].patch
              /\ summary.byType[t].upToDate + summary.byType[t].outdated
                   = summary.byType[t].total - Cardinality(RowsWithStatus(t, "undefined"))
              /\ summary.byType[t].upToDate + summary.byType[t].outdated
                   <= summary.byType[t].total
    /\ spc = "totals" =>
         /\ \A f \in SummaryFields : summary.totals[f] = SumOverTypes(f)
         /\ summary.totals.upToDate + summary.totals.outdated <= summary.totals.total

\* a summary of two dependency types with a patch update among its records
\* and a record without updateStatus
C25_Witness ==
    /\ spc = "totals"
    /\ Cardinality(DOMAIN summary.byType) = 2
    /\ summary.totals.total = 2
    /\ summary.totals.patch = 1
    /\ summary.totals.outdated = 1
    /\ summary.totals.upToDate = 0
    /\ \E n \in 1..Len(summaryList) : summaryList[n].updateStatus = "undefined"

\* C27: without force-overwrite the path getExportFilePath returns, with the
\* file extension, is not among the files of the output directory; with
\* force-overwrite it is the base path.
C27_ReturnsFreshPath ==
    fpc = "returned" =>
        IF exportCall.forceOverwrite
        THEN exportPath = baseFileName(exportCall.packageJson)
        ELSE (exportPath \o exportCall.fileExtension) \notin exportCall.files

====
